---------------------------- MODULE Spec2Model ----------------------------
(***************************************************************************)
(* Strength classification of institutional positioning (open interest    *)
(* and its day-over-day change), the two composition tables, the          *)
(* percentile thresholds, the window strategies and the backtest.         *)
(*                                                                         *)
(* Suffixes name the script a definition is taken from:                    *)
(*   _R   src/unnamed/part_000 (FIIStrengthCalculatorRespective)           *)
(*   _C3  src/fii_strength_calculator_3.py                                 *)
(*   _M2  src/custom_percentile_method_2.py                                *)
(*   _C1  src/fii_strength_calculator.py                                   *)
(*   _H   src/fii_dii_helper_v2.py                                         *)
(*                                                                         *)
(* Numbers: positions are integers; a threshold is kept as an integer     *)
(* number of hundredths (the percentile divides by 100), so every         *)
(* comparison of the code is made exactly, without rounding.               *)
(***************************************************************************)
EXTENDS Integers, Sequences, FiniteSets, TLC

(***************************************************************************)
(* Bounds of the model.                                                     *)
(***************************************************************************)
MaxVal == 2
MaxLen == 3

(***************************************************************************)
(* Python values.                                                           *)
(***************************************************************************)
\* the divisor of "percentile / 100"
PctDen == 100

\* a float cell of the data frame: <<v>> is the number v, <<>> is NaN
NaN == << >>
Num(v) == << v >>
IsNaN(c) == c = NaN

\* abs() of a float cell
Abs(c) == IF IsNaN(c) THEN NaN ELSE IF c[1] < 0 THEN Num(-c[1]) ELSE c

\* "cell > 0": every comparison with NaN is False
GtZero(c) == IF IsNaN(c) THEN FALSE ELSE c[1] > 0

\* "cell >= threshold", the threshold in hundredths
GeThreshold(c, t) == IF IsNaN(c) THEN FALSE ELSE c[1] * PctDen >= t

\* a dict literal: a later entry for a key replaces an earlier one
Dict(entries) ==
  [k \in {entries[i][1] : i \in DOMAIN entries} |->
     entries[CHOOSE i \in DOMAIN entries :
               /\ entries[i][1] = k
               /\ \A j \in DOMAIN entries : entries[j][1] = k => j <= i][2]]

\* dict.get(key, default)
DictGet(d, key, default) == IF key \in DOMAIN d THEN d[key] ELSE default

\* list[k] with Python's negative indices; IndexError outside the list
PyIndex(list, k) ==
  IF k >= 0 /\ k < Len(list) THEN [err |-> "", val |-> list[k + 1]]
  ELSE IF k < 0 /\ -k <= Len(list) THEN [err |-> "", val |-> list[Len(list) + k + 1]]
  ELSE [err |-> "IndexError", val |-> 0]

\* the f-string "{a} {b}"
Fmt(a, b) == a \o " " \o b

\* the words the label strings are made of
Words == {"STRONG", "MEDIUM", "MILD", "BULLISH", "BEARISH",
          "INDECISIVE", "VOLATILE", "NEUTRAL"}

(***************************************************************************)
(* Label constants of fii_dii_helper_v2.py.                                 *)
(***************************************************************************)
INDECISIVE == ""
BULLISH == "BULLISH"
BEARISH == "BEARISH"
VOLATILE == "VOLATILE"
NEUTRAL == "NEUTRAL"
STRONG == "Strong"
MEDIUM == "Medium"
MILD == "Mild"

(***************************************************************************)
(* SignalComposer: the truth table of each script.                          *)
(***************************************************************************)
truth_table_R ==
  Dict(<<
    <<<<"STRONG BULLISH", "STRONG BULLISH">>, "STRONG BULLISH">>,
    <<<<"STRONG BULLISH", "MEDIUM BULLISH">>, "STRONG BULLISH">>,
    <<<<"STRONG BULLISH", "MILD BULLISH">>, "STRONG BULLISH">>,
    <<<<"STRONG BULLISH", "STRONG BEARISH">>, "INDECISIVE">>,
    <<<<"STRONG BULLISH", "MEDIUM BEARISH">>, "INDECISIVE">>,
    <<<<"STRONG BULLISH", "MILD BEARISH">>, "STRONG BULLISH">>,
    <<<<"MEDIUM BULLISH", "STRONG BULLISH">>, "STRONG BULLISH">>,
    <<<<"MEDIUM BULLISH", "MEDIUM BULLISH">>, "MEDIUM BULLISH">>,
    <<<<"MEDIUM BULLISH", "MILD BULLISH">>, "MEDIUM BULLISH">>,
    <<<<"MEDIUM BULLISH", "STRONG BEARISH">>, "INDECISIVE">>,
    <<<<"MEDIUM BULLISH", "MEDIUM BEARISH">>, "INDECISIVE">>,
    <<<<"MEDIUM BULLISH", "MILD BEARISH">>, "MEDIUM BULLISH">>,
    <<<<"MILD BULLISH", "STRONG BULLISH">>, "MEDIUM BULLISH">>,
    <<<<"MILD BULLISH", "MEDIUM BULLISH">>, "MILD BULLISH">>,
    <<<<"MILD BULLISH", "MILD BULLISH">>, "MILD BULLISH">>,
    <<<<"MILD BULLISH", "STRONG BEARISH">>, "MEDIUM BEARISH">>,
    <<<<"MILD BULLISH", "MEDIUM BEARISH">>, "INDECISIVE">>,
    <<<<"MILD BULLISH", "MILD BEARISH">>, "INDECISIVE">>,
    <<<<"STRONG BEARISH", "STRONG BULLISH">>, "INDECISIVE">>,
    <<<<"STRONG BEARISH", "MEDIUM BULLISH">>, "INDECISIVE">>,
    <<<<"STRONG BEARISH", "MILD BULLISH">>, "STRONG BEARISH">>,
    <<<<"STRONG BEARISH", "STRONG BEARISH">>, "STRONG BEARISH">>,
    <<<<"STRONG BEARISH", "MEDIUM BEARISH">>, "STRONG BEARISH">>,
    <<<<"STRONG BEARISH", "MILD BEARISH">>, "STRONG BEARISH">>,
    <<<<"MEDIUM BEARISH", "STRONG BULLISH">>, "INDECISIVE">>,
    <<<<"MEDIUM BEARISH", "MEDIUM BULLISH">>, "INDECISIVE">>,
    <<<<"MEDIUM BEARISH", "MILD BULLISH">>, "MEDIUM BEARISH">>,
    <<<<"MEDIUM BEARISH", "STRONG BEARISH">>, "STRONG BEARISH">>,
    <<<<"MEDIUM BEARISH", "MEDIUM BEARISH">>, "MEDIUM BEARISH">>,
    <<<<"MEDIUM BEARISH", "MILD BEARISH">>, "MEDIUM BEARISH">>,
    <<<<"MILD BEARISH", "STRONG BULLISH">>, "MEDIUM BULLISH">>,
    <<<<"MILD BEARISH", "MEDIUM BULLISH">>, "INDECISIVE">>,
    <<<<"MILD BEARISH", "MILD BULLISH">>, "INDECISIVE">>,
    <<<<"MILD BEARISH", "STRONG BEARISH">>, "MEDIUM BEARISH">>,
    <<<<"MILD BEARISH", "MEDIUM BEARISH">>, "MILD BEARISH">>,
    <<<<"MILD BEARISH", "MILD BEARISH">>, "MILD BEARISH">>
  >>)

truth_table_C3 ==
  Dict(<<
    <<<<"STRONG BULLISH", "STRONG BULLISH">>, "STRONG BULLISH">>,
    <<<<"STRONG BULLISH", "MEDIUM BULLISH">>, "STRONG BULLISH">>,
    <<<<"STRONG BULLISH", "MILD BULLISH">>, "STRONG BULLISH">>,
    <<<<"STRONG BULLISH", "STRONG BEARISH">>, "INDECISIVE">>,
    <<<<"STRONG BULLISH", "MEDIUM BEARISH">>, "INDECISIVE">>,
    <<<<"STRONG BULLISH", "MILD BEARISH">>, "STRONG BULLISH">>,
    <<<<"MEDIUM BULLISH", "STRONG BULLISH">>, "STRONG BULLISH">>,
    <<<<"MEDIUM BULLISH", "MEDIUM BULLISH">>, "MEDIUM BULLISH">>,
    <<<<"MEDIUM BULLISH", "MILD BULLISH">>, "MEDIUM BULLISH">>,
    <<<<"MEDIUM BULLISH", "STRONG BEARISH">>, "INDECISIVE">>,
    <<<<"MEDIUM BULLISH", "MEDIUM BEARISH">>, "INDECISIVE">>,
    <<<<"MEDIUM BULLISH", "MILD BEARISH">>, "MEDIUM BULLISH">>,
    <<<<"MILD BULLISH", "STRONG BULLISH">>, "MEDIUM BULLISH">>,
    <<<<"MILD BULLISH", "MEDIUM BULLISH">>, "MILD BULLISH">>,
    <<<<"MILD BULLISH", "MILD BULLISH">>, "MILD BULLISH">>,
    <<<<"MILD BULLISH", "STRONG BEARISH">>, "MEDIUM BEARISH">>,
    <<<<"MILD BULLISH", "MEDIUM BEARISH">>, "INDECISIVE">>,
    <<<<"MILD BULLISH", "MILD BEARISH">>, "INDECISIVE">>,
    <<<<"STRONG BEARISH", "STRONG BULLISH">>, "INDECISIVE">>,
    <<<<"STRONG BEARISH", "MEDIUM BULLISH">>, "INDECISIVE">>,
    <<<<"STRONG BEARISH", "MILD BULLISH">>, "STRONG BEARISH">>,
    <<<<"STRONG BEARISH", "STRONG BEARISH">>, "STRONG BEARISH">>,
    <<<<"STRONG BEARISH", "MEDIUM BEARISH">>, "STRONG BEARISH">>,
    <<<<"STRONG BEARISH", "MILD BEARISH">>, "STRONG BEARISH">>,
    <<<<"MEDIUM BEARISH", "STRONG BULLISH">>, "INDECISIVE">>,
    <<<<"MEDIUM BEARISH", "MEDIUM BULLISH">>, "INDECISIVE">>,
    <<<<"MEDIUM BEARISH", "MILD BULLISH">>, "MEDIUM BEARISH">>,
    <<<<"MEDIUM BEARISH", "STRONG BEARISH">>, "STRONG BEARISH">>,
    <<<<"MEDIUM BEARISH", "MEDIUM BEARISH">>, "MEDIUM BEARISH">>,
    <<<<"MEDIUM BEARISH", "MILD BEARISH">>, "MEDIUM BEARISH">>,
    <<<<"MILD BEARISH", "STRONG BULLISH">>, "MEDIUM BULLISH">>,
    <<<<"MILD BEARISH", "MEDIUM BULLISH">>, "INDECISIVE">>,
    <<<<"MILD BEARISH", "MILD BULLISH">>, "INDECISIVE">>,
    <<<<"MILD BEARISH", "STRONG BEARISH">>, "MEDIUM BEARISH">>,
    <<<<"MILD BEARISH", "MEDIUM BEARISH">>, "MILD BEARISH">>,
    <<<<"MILD BEARISH", "MILD BEARISH">>, "MILD BEARISH">>
  >>)

truth_table_M2 ==
  Dict(<<
    <<<<"STRONG BULLISH", "STRONG BULLISH">>, "STRONG BULLISH">>,
    <<<<"STRONG BULLISH", "MEDIUM BULLISH">>, "STRONG BULLISH">>,
    <<<<"STRONG BULLISH", "MILD BULLISH">>, "STRONG BULLISH">>,
    <<<<"STRONG BULLISH", "STRONG BEARISH">>, "INDECISIVE">>,
    <<<<"STRONG BULLISH", "MEDIUM BEARISH">>, "INDECISIVE">>,
    <<<<"STRONG BULLISH", "MILD BEARISH">>, "STRONG BULLISH">>,
    <<<<"MEDIUM BULLISH", "STRONG BULLISH">>, "STRONG BULLISH">>,
    <<<<"MEDIUM BULLISH", "MEDIUM BULLISH">>, "MEDIUM BULLISH">>,
    <<<<"MEDIUM BULLISH", "MILD BULLISH">>, "MEDIUM BULLISH">>,
    <<<<"MEDIUM BULLISH", "STRONG BEARISH">>, "INDECISIVE">>,
    <<<<"MEDIUM BULLISH", "MEDIUM BEARISH">>, "INDECISIVE">>,
    <<<<"MEDIUM BULLISH", "MILD BEARISH">>, "MEDIUM BULLISH">>,
    <<<<"MILD BULLISH", "STRONG BULLISH">>, "MEDIUM BULLISH">>,
    <<<<"MILD BULLISH", "MEDIUM BULLISH">>, "MILD BULLISH">>,
    <<<<"MILD BULLISH", "MILD BULLISH">>, "MILD BULLISH">>,
    <<<<"MILD BULLISH", "STRONG BEARISH">>, "MEDIUM BEARISH">>,
    <<<<"MILD BULLISH", "MEDIUM BEARISH">>, "INDECISIVE">>,
    <<<<"MILD BULLISH", "MILD BEARISH">>, "INDECISIVE">>,
    <<<<"STRONG BEARISH", "STRONG BULLISH">>, "INDECISIVE">>,
    <<<<"STRONG BEARISH", "MEDIUM BULLISH">>, "INDECISIVE">>,
    <<<<"STRONG BEARISH", "MILD BULLISH">>, "STRONG BEARISH">>,
    <<<<"STRONG BEARISH", "STRONG BEARISH">>, "STRONG BEARISH">>,
    <<<<"STRONG BEARISH", "MEDIUM BEARISH">>, "STRONG BEARISH">>,
    <<<<"STRONG BEARISH", "MILD BEARISH">>, "STRONG BEARISH">>,
    <<<<"MEDIUM BEARISH", "STRONG BULLISH">>, "INDECISIVE">>,
    <<<<"MEDIUM BEARISH", "MEDIUM BULLISH">>, "INDECISIVE">>,
    <<<<"MEDIUM BEARISH", "MILD BULLISH">>, "MEDIUM BEARISH">>,
    <<<<"MEDIUM BEARISH", "STRONG BEARISH">>, "STRONG BEARISH">>,
    <<<<"MEDIUM BEARISH", "MEDIUM BEARISH">>, "MEDIUM BEARISH">>,
    <<<<"MEDIUM BEARISH", "MILD BEARISH">>, "MEDIUM BEARISH">>,
    <<<<"MILD BEARISH", "STRONG BULLISH">>, "MEDIUM BULLISH">>,
    <<<<"MILD BEARISH", "MEDIUM BULLISH">>, "INDECISIVE">>,
    <<<<"MILD BEARISH", "MILD BULLISH">>, "INDECISIVE">>,
    <<<<"MILD BEARISH", "STRONG BEARISH">>, "MEDIUM BEARISH">>,
    <<<<"MILD BEARISH", "MEDIUM BEARISH">>, "MILD BEARISH">>,
    <<<<"MILD BEARISH", "MILD BEARISH">>, "MILD BEARISH">>
  >>)

truth_table_C1 ==
  Dict(<<
    <<<<"STRONG BULLISH", "STRONG BULLISH">>, "STRONG BULLISH">>,
    <<<<"STRONG BULLISH", "MEDIUM BULLISH">>, "STRONG BULLISH">>,
    <<<<"STRONG BULLISH", "MILD BULLISH">>, "STRONG BULLISH">>,
    <<<<"STRONG BULLISH", "STRONG BEARISH">>, "INDECISIVE">>,
    <<<<"STRONG BULLISH", "MEDIUM BEARISH">>, "INDECISIVE">>,
    <<<<"STRONG BULLISH", "MILD BEARISH">>, "STRONG BULLISH">>,
    <<<<"MEDIUM BULLISH", "STRONG BULLISH">>, "STRONG BULLISH">>,
    <<<<"MEDIUM BULLISH", "MEDIUM BULLISH">>, "MEDIUM BULLISH">>,
    <<<<"MEDIUM BULLISH", "MILD BULLISH">>, "MEDIUM BULLISH">>,
    <<<<"MEDIUM BULLISH", "STRONG BEARISH">>, "INDECISIVE">>,
    <<<<"MEDIUM BULLISH", "MEDIUM BEARISH">>, "INDECISIVE">>,
    <<<<"MEDIUM BULLISH", "MILD BEARISH">>, "MEDIUM BULLISH">>,
    <<<<"MILD BULLISH", "STRONG BULLISH">>, "MEDIUM BULLISH">>,
    <<<<"MILD BULLISH", "MEDIUM BULLISH">>, "MILD BULLISH">>,
    <<<<"MILD BULLISH", "MILD BULLISH">>, "MILD BULLISH">>,
    <<<<"MILD BULLISH", "STRONG BEARISH">>, "MEDIUM BEARISH">>,
    <<<<"MILD BULLISH", "MEDIUM BEARISH">>, "INDECISIVE">>,
    <<<<"MILD BULLISH", "MILD BEARISH">>, "INDECISIVE">>,
    <<<<"STRONG BEARISH", "STRONG BULLISH">>, "INDECISIVE">>,
    <<<<"STRONG BEARISH", "MEDIUM BULLISH">>, "INDECISIVE">>,
    <<<<"STRONG BEARISH", "MILD BULLISH">>, "STRONG BEARISH">>,
    <<<<"STRONG BEARISH", "STRONG BEARISH">>, "STRONG BEARISH">>,
    <<<<"STRONG BEARISH", "MEDIUM BEARISH">>, "STRONG BEARISH">>,
    <<<<"STRONG BEARISH", "MILD BEARISH">>, "STRONG BEARISH">>,
    <<<<"MEDIUM BEARISH", "STRONG BULLISH">>, "INDECISIVE">>,
    <<<<"MEDIUM BEARISH", "MEDIUM BULLISH">>, "INDECISIVE">>,
    <<<<"MEDIUM BEARISH", "MILD BULLISH">>, "MEDIUM BEARISH">>,
    <<<<"MEDIUM BEARISH", "STRONG BEARISH">>, "STRONG BEARISH">>,
    <<<<"MEDIUM BEARISH", "MEDIUM BEARISH">>, "MEDIUM BEARISH">>,
    <<<<"MEDIUM BEARISH", "MILD BEARISH">>, "MEDIUM BEARISH">>,
    <<<<"MILD BEARISH", "STRONG BULLISH">>, "MEDIUM BULLISH">>,
    <<<<"MILD BEARISH", "MEDIUM BULLISH">>, "INDECISIVE">>,
    <<<<"MILD BEARISH", "MILD BULLISH">>, "INDECISIVE">>,
    <<<<"MILD BEARISH", "STRONG BEARISH">>, "MEDIUM BEARISH">>,
    <<<<"MILD BEARISH", "MEDIUM BEARISH">>, "MILD BEARISH">>,
    <<<<"MILD BEARISH", "MILD BEARISH">>, "MILD BEARISH">>
  >>)

oi_change_mapping_H ==
  Dict(<<
    <<<<<<STRONG, BULLISH>>, <<STRONG, BULLISH>>>>, <<STRONG, BULLISH>>>>,
    <<<<<<STRONG, BULLISH>>, <<MEDIUM, BULLISH>>>>, <<STRONG, BULLISH>>>>,
    <<<<<<STRONG, BULLISH>>, <<MILD, BULLISH>>>>, <<STRONG, BULLISH>>>>,
    <<<<<<STRONG, BULLISH>>, <<STRONG, BEARISH>>>>, <<INDECISIVE, INDECISIVE>>>>,
    <<<<<<STRONG, BULLISH>>, <<MEDIUM, BEARISH>>>>, <<INDECISIVE, INDECISIVE>>>>,
    <<<<<<STRONG, BULLISH>>, <<MILD, BEARISH>>>>, <<STRONG, BULLISH>>>>,
    <<<<<<MEDIUM, BULLISH>>, <<STRONG, BULLISH>>>>, <<STRONG, BULLISH>>>>,
    <<<<<<MEDIUM, BULLISH>>, <<MEDIUM, BULLISH>>>>, <<MEDIUM, BULLISH>>>>,
    <<<<<<MEDIUM, BULLISH>>, <<MILD, BULLISH>>>>, <<MEDIUM, BULLISH>>>>,
    <<<<<<MEDIUM, BULLISH>>, <<STRONG, BEARISH>>>>, <<INDECISIVE, INDECISIVE>>>>,
    <<<<<<MEDIUM, BULLISH>>, <<MEDIUM, BEARISH>>>>, <<INDECISIVE, INDECISIVE>>>>,
    <<<<<<MEDIUM, BULLISH>>, <<MILD, BEARISH>>>>, <<MEDIUM, BULLISH>>>>,
    <<<<<<MILD, BULLISH>>, <<STRONG, BULLISH>>>>, <<MEDIUM, BULLISH>>>>,
    <<<<<<MILD, BULLISH>>, <<MEDIUM, BULLISH>>>>, <<MILD, BULLISH>>>>,
    <<<<<<MILD, BULLISH>>, <<MILD, BULLISH>>>>, <<MILD, BULLISH>>>>,
    <<<<<<MILD, BULLISH>>, <<STRONG, BEARISH>>>>, <<MEDIUM, BEARISH>>>>,
    <<<<<<MILD, BULLISH>>, <<MEDIUM, BEARISH>>>>, <<INDECISIVE, INDECISIVE>>>>,
    <<<<<<MILD, BULLISH>>, <<MILD, BEARISH>>>>, <<INDECISIVE, INDECISIVE>>>>,
    <<<<<<STRONG, BEARISH>>, <<STRONG, BULLISH>>>>, <<INDECISIVE, INDECISIVE>>>>,
    <<<<<<STRONG, BEARISH>>, <<MEDIUM, BULLISH>>>>, <<INDECISIVE, INDECISIVE>>>>,
    <<<<<<STRONG, BEARISH>>, <<MILD, BULLISH>>>>, <<STRONG, BEARISH>>>>,
    <<<<<<STRONG, BEARISH>>, <<STRONG, BEARISH>>>>, <<STRONG, BEARISH>>>>,
    <<<<<<STRONG, BEARISH>>, <<MEDIUM, BEARISH>>>>, <<STRONG, BEARISH>>>>,
    <<<<<<STRONG, BEARISH>>, <<MILD, BEARISH>>>>, <<STRONG, BEARISH>>>>,
    <<<<<<MEDIUM, BEARISH>>, <<STRONG, BULLISH>>>>, <<INDECISIVE, INDECISIVE>>>>,
    <<<<<<MEDIUM, BEARISH>>, <<MEDIUM, BULLISH>>>>, <<INDECISIVE, INDECISIVE>>>>,
    <<<<<<MEDIUM, BEARISH>>, <<MILD, BULLISH>>>>, <<MEDIUM, BEARISH>>>>,
    <<<<<<MEDIUM, BEARISH>>, <<STRONG, BEARISH>>>>, <<STRONG, BEARISH>>>>,
    <<<<<<MEDIUM, BEARISH>>, <<MEDIUM, BEARISH>>>>, <<MEDIUM, BEARISH>>>>,
    <<<<<<MEDIUM, BEARISH>>, <<MILD, BEARISH>>>>, <<MEDIUM, BEARISH>>>>,
    <<<<<<MILD, BEARISH>>, <<STRONG, BULLISH>>>>, <<MEDIUM, BULLISH>>>>,
    <<<<<<MILD, BEARISH>>, <<MEDIUM, BULLISH>>>>, <<INDECISIVE, INDECISIVE>>>>,
    <<<<<<MILD, BEARISH>>, <<MILD, BULLISH>>>>, <<INDECISIVE, INDECISIVE>>>>,
    <<<<<<MILD, BEARISH>>, <<STRONG, BEARISH>>>>, <<MEDIUM, BEARISH>>>>,
    <<<<<<MILD, BEARISH>>, <<MEDIUM, BEARISH>>>>, <<MILD, BEARISH>>>>,
    <<<<<<MILD, BEARISH>>, <<MILD, BEARISH>>>>, <<MILD, BEARISH>>>>
  >>)

\* variant: the OI label and the change label exchanged in the key
apply_truth_table_R_swapped(oi_strength, oi_direction, change_strength, change_direction) ==
  DictGet(truth_table_R,
          <<Fmt(change_strength, change_direction), Fmt(oi_strength, oi_direction)>>,
          "INDECISIVE")

\* variant: an OI label and a change label of opposite directions are never
\* combined
apply_truth_table_R_no_override(oi_strength, oi_direction, change_strength, change_direction) ==
  IF oi_direction # change_direction THEN "INDECISIVE"
  ELSE DictGet(truth_table_R,
               <<Fmt(oi_strength, oi_direction), Fmt(change_strength, change_direction)>>,
               "INDECISIVE")

\* variant: a bearish OI label never prevails over a bullish change label
apply_truth_table_R_bullish_first(oi_strength, oi_direction, change_strength, change_direction) ==
  IF oi_direction = "BEARISH" /\ change_direction = "BULLISH" THEN "INDECISIVE"
  ELSE DictGet(truth_table_R,
               <<Fmt(oi_strength, oi_direction), Fmt(change_strength, change_direction)>>,
               "INDECISIVE")

\* variant: on a conflict of directions the change label is returned
apply_truth_table_R_change_prevails(oi_strength, oi_direction, change_strength, change_direction) ==
  IF oi_direction # change_direction THEN Fmt(change_strength, change_direction)
  ELSE DictGet(truth_table_R,
               <<Fmt(oi_strength, oi_direction), Fmt(change_strength, change_direction)>>,
               "INDECISIVE")

apply_truth_table_R(oi_strength, oi_direction, change_strength, change_direction) ==
  DictGet(truth_table_R,
          <<Fmt(oi_strength, oi_direction), Fmt(change_strength, change_direction)>>,
          "INDECISIVE")

apply_truth_table_C3(oi_strength, oi_direction, change_strength, change_direction) ==
  DictGet(truth_table_C3,
          <<Fmt(oi_strength, oi_direction), Fmt(change_strength, change_direction)>>,
          "INDECISIVE")

apply_truth_table_M2(oi_strength, oi_direction, change_strength, change_direction) ==
  DictGet(truth_table_M2,
          <<Fmt(oi_strength, oi_direction), Fmt(change_strength, change_direction)>>,
          "INDECISIVE")

apply_truth_table_C1(oi_strength, oi_direction, change_strength, change_direction) ==
  DictGet(truth_table_C1,
          <<Fmt(oi_strength, oi_direction), Fmt(change_strength, change_direction)>>,
          "INDECISIVE")

get_strength_view_from_oi_and_oi_change_strength(oi_view, oi_strength, oi_change_view, oi_change_strength) ==
  DictGet(oi_change_mapping_H,
          <<<<oi_strength, oi_view>>, <<oi_change_strength, oi_change_view>>>>,
          <<INDECISIVE, INDECISIVE>>)

(***************************************************************************)
(* OptionsNetComposer: the Net Options mapping of each script.              *)
(***************************************************************************)
parse_strength(strength_str) ==
  IF strength_str = "INDECISIVE" THEN <<"INDECISIVE", "INDECISIVE">>
  ELSE IF \E a \in Words, b \in Words : strength_str = Fmt(a, b)
       THEN CHOOSE parts \in Words \X Words : strength_str = Fmt(parts[1], parts[2])
       ELSE <<"INDECISIVE", "INDECISIVE">>

net_oi_mapping_R ==
  Dict(<<
    <<<<<<"MEDIUM", "BULLISH">>, <<"INDECISIVE", "INDECISIVE">>>>, <<"MEDIUM", "BULLISH">>>>,
    <<<<<<"MEDIUM", "BULLISH">>, <<"MEDIUM", "BEARISH">>>>, <<"VOLATILE", "VOLATILE">>>>,
    <<<<<<"MEDIUM", "BULLISH">>, <<"MEDIUM", "BULLISH">>>>, <<"MEDIUM", "BULLISH">>>>,
    <<<<<<"MEDIUM", "BULLISH">>, <<"STRONG", "BEARISH">>>>, <<"MEDIUM", "BEARISH">>>>,
    <<<<<<"MEDIUM", "BULLISH">>, <<"STRONG", "BULLISH">>>>, <<"STRONG", "BULLISH">>>>,
    <<<<<<"MEDIUM", "BULLISH">>, <<"MILD", "BEARISH">>>>, <<"MEDIUM", "BULLISH">>>>,
    <<<<<<"MEDIUM", "BULLISH">>, <<"MILD", "BULLISH">>>>, <<"MEDIUM", "BULLISH">>>>,
    <<<<<<"MEDIUM", "BEARISH">>, <<"INDECISIVE", "INDECISIVE">>>>, <<"MEDIUM", "BEARISH">>>>,
    <<<<<<"MEDIUM", "BEARISH">>, <<"MEDIUM", "BEARISH">>>>, <<"MEDIUM", "BEARISH">>>>,
    <<<<<<"MEDIUM", "BEARISH">>, <<"MEDIUM", "BULLISH">>>>, <<"NEUTRAL", "NEUTRAL">>>>,
    <<<<<<"MEDIUM", "BEARISH">>, <<"STRONG", "BEARISH">>>>, <<"STRONG", "BEARISH">>>>,
    <<<<<<"MEDIUM", "BEARISH">>, <<"STRONG", "BULLISH">>>>, <<"STRONG", "BULLISH">>>>,
    <<<<<<"MEDIUM", "BEARISH">>, <<"MILD", "BEARISH">>>>, <<"MEDIUM", "BEARISH">>>>,
    <<<<<<"MEDIUM", "BEARISH">>, <<"MILD", "BULLISH">>>>, <<"MEDIUM", "BEARISH">>>>,
    <<<<<<"STRONG", "BULLISH">>, <<"INDECISIVE", "INDECISIVE">>>>, <<"STRONG", "BULLISH">>>>,
    <<<<<<"STRONG", "BULLISH">>, <<"MEDIUM", "BEARISH">>>>, <<"MEDIUM", "BULLISH">>>>,
    <<<<<<"STRONG", "BULLISH">>, <<"MEDIUM", "BULLISH">>>>, <<"STRONG", "BULLISH">>>>,
    <<<<<<"STRONG", "BULLISH">>, <<"STRONG", "BEARISH">>>>, <<"VOLATILE", "VOLATILE">>>>,
    <<<<<<"STRONG", "BULLISH">>, <<"STRONG", "BULLISH">>>>, <<"STRONG", "BULLISH">>>>,
    <<<<<<"STRONG", "BULLISH">>, <<"MILD", "BEARISH">>>>, <<"STRONG", "BULLISH">>>>,
    <<<<<<"STRONG", "BULLISH">>, <<"MILD", "BULLISH">>>>, <<"STRONG", "BULLISH">>>>,
    <<<<<<"STRONG", "BEARISH">>, <<"INDECISIVE", "INDECISIVE">>>>, <<"STRONG", "BEARISH">>>>,
    <<<<<<"STRONG", "BEARISH">>, <<"MEDIUM", "BEARISH">>>>, <<"STRONG", "BEARISH">>>>,
    <<<<<<"STRONG", "BEARISH">>, <<"MEDIUM", "BULLISH">>>>, <<"MEDIUM", "BEARISH">>>>,
    <<<<<<"STRONG", "BEARISH">>, <<"STRONG", "BEARISH">>>>, <<"STRONG", "BEARISH">>>>,
    <<<<<<"STRONG", "BEARISH">>, <<"STRONG", "BULLISH">>>>, <<"NEUTRAL", "NEUTRAL">>>>,
    <<<<<<"STRONG", "BEARISH">>, <<"MILD", "BEARISH">>>>, <<"STRONG", "BEARISH">>>>,
    <<<<<<"STRONG", "BEARISH">>, <<"MILD", "BULLISH">>>>, <<"STRONG", "BEARISH">>>>,
    <<<<<<"MILD", "BULLISH">>, <<"INDECISIVE", "INDECISIVE">>>>, <<"INDECISIVE", "INDECISIVE">>>>,
    <<<<<<"MILD", "BULLISH">>, <<"MEDIUM", "BEARISH">>>>, <<"MILD", "BEARISH">>>>,
    <<<<<<"MILD", "BULLISH">>, <<"MEDIUM", "BULLISH">>>>, <<"MEDIUM", "BULLISH">>>>,
    <<<<<<"MILD", "BULLISH">>, <<"STRONG", "BEARISH">>>>, <<"STRONG", "BEARISH">>>>,
    <<<<<<"MILD", "BULLISH">>, <<"STRONG", "BULLISH">>>>, <<"STRONG", "BULLISH">>>>,
    <<<<<<"MILD", "BULLISH">>, <<"MILD", "BEARISH">>>>, <<"INDECISIVE", "INDECISIVE">>>>,
    <<<<<<"MILD", "BULLISH">>, <<"MILD", "BULLISH">>>>, <<"MILD", "BULLISH">>>>,
    <<<<<<"MILD", "BEARISH">>, <<"INDECISIVE", "INDECISIVE">>>>, <<"INDECISIVE", "INDECISIVE">>>>,
    <<<<<<"MILD", "BEARISH">>, <<"MEDIUM", "BEARISH">>>>, <<"MEDIUM", "BEARISH">>>>,
    <<<<<<"MILD", "BEARISH">>, <<"MEDIUM", "BULLISH">>>>, <<"MEDIUM", "BULLISH">>>>,
    <<<<<<"MILD", "BEARISH">>, <<"STRONG", "BEARISH">>>>, <<"STRONG", "BEARISH">>>>,
    <<<<<<"MILD", "BEARISH">>, <<"STRONG", "BULLISH">>>>, <<"STRONG", "BULLISH">>>>,
    <<<<<<"MILD", "BEARISH">>, <<"MILD", "BEARISH">>>>, <<"INDECISIVE", "INDECISIVE">>>>,
    <<<<<<"MILD", "BEARISH">>, <<"MILD", "BULLISH">>>>, <<"INDECISIVE", "INDECISIVE">>>>,
    <<<<<<"INDECISIVE", "INDECISIVE">>, <<"INDECISIVE", "INDECISIVE">>>>, <<"INDECISIVE", "INDECISIVE">>>>,
    <<<<<<"INDECISIVE", "INDECISIVE">>, <<"MEDIUM", "BEARISH">>>>, <<"MEDIUM", "BEARISH">>>>,
    <<<<<<"INDECISIVE", "INDECISIVE">>, <<"MEDIUM", "BULLISH">>>>, <<"MEDIUM", "BULLISH">>>>,
    <<<<<<"INDECISIVE", "INDECISIVE">>, <<"MILD", "BEARISH">>>>, <<"INDECISIVE", "INDECISIVE">>>>,
    <<<<<<"INDECISIVE", "INDECISIVE">>, <<"MILD", "BULLISH">>>>, <<"INDECISIVE", "INDECISIVE">>>>,
    <<<<<<"INDECISIVE", "INDECISIVE">>, <<"STRONG", "BEARISH">>>>, <<"STRONG", "BEARISH">>>>,
    <<<<<<"INDECISIVE", "INDECISIVE">>, <<"STRONG", "BULLISH">>>>, <<"STRONG", "BULLISH">>>>
  >>)

net_oi_mapping_C3 ==
  Dict(<<
    <<<<<<"MEDIUM", "BULLISH">>, <<"INDECISIVE", "INDECISIVE">>>>, <<"MEDIUM", "BULLISH">>>>,
    <<<<<<"MEDIUM", "BULLISH">>, <<"MEDIUM", "BEARISH">>>>, <<"INDECISIVE", "VOLATILE">>>>,
    <<<<<<"MEDIUM", "BULLISH">>, <<"MEDIUM", "BULLISH">>>>, <<"MEDIUM", "BULLISH">>>>,
    <<<<<<"MEDIUM", "BULLISH">>, <<"STRONG", "BEARISH">>>>, <<"MEDIUM", "BEARISH">>>>,
    <<<<<<"MEDIUM", "BULLISH">>, <<"STRONG", "BULLISH">>>>, <<"STRONG", "BULLISH">>>>,
    <<<<<<"MEDIUM", "BULLISH">>, <<"MILD", "BEARISH">>>>, <<"MEDIUM", "BULLISH">>>>,
    <<<<<<"MEDIUM", "BULLISH">>, <<"MILD", "BULLISH">>>>, <<"MEDIUM", "BULLISH">>>>,
    <<<<<<"MEDIUM", "BEARISH">>, <<"INDECISIVE", "INDECISIVE">>>>, <<"MEDIUM", "BEARISH">>>>,
    <<<<<<"MEDIUM", "BEARISH">>, <<"MEDIUM", "BEARISH">>>>, <<"MEDIUM", "BEARISH">>>>,
    <<<<<<"MEDIUM", "BEARISH">>, <<"MEDIUM", "BULLISH">>>>, <<"INDECISIVE", "NEUTRAL">>>>,
    <<<<<<"MEDIUM", "BEARISH">>, <<"STRONG", "BEARISH">>>>, <<"STRONG", "BEARISH">>>>,
    <<<<<<"MEDIUM", "BEARISH">>, <<"STRONG", "BULLISH">>>>, <<"STRONG", "BULLISH">>>>,
    <<<<<<"MEDIUM", "BEARISH">>, <<"MILD", "BEARISH">>>>, <<"MEDIUM", "BEARISH">>>>,
    <<<<<<"MEDIUM", "BEARISH">>, <<"MILD", "BULLISH">>>>, <<"MEDIUM", "BEARISH">>>>,
    <<<<<<"STRONG", "BULLISH">>, <<"INDECISIVE", "INDECISIVE">>>>, <<"STRONG", "BULLISH">>>>,
    <<<<<<"STRONG", "BULLISH">>, <<"MEDIUM", "BEARISH">>>>, <<"MEDIUM", "BULLISH">>>>,
    <<<<<<"STRONG", "BULLISH">>, <<"MEDIUM", "BULLISH">>>>, <<"STRONG", "BULLISH">>>>,
    <<<<<<"STRONG", "BULLISH">>, <<"STRONG", "BEARISH">>>>, <<"INDECISIVE", "VOLATILE">>>>,
    <<<<<<"STRONG", "BULLISH">>, <<"STRONG", "BULLISH">>>>, <<"STRONG", "BULLISH">>>>,
    <<<<<<"STRONG", "BULLISH">>, <<"MILD", "BEARISH">>>>, <<"STRONG", "BULLISH">>>>,
    <<<<<<"STRONG", "BULLISH">>, <<"MILD", "BULLISH">>>>, <<"STRONG", "BULLISH">>>>,
    <<<<<<"STRONG", "BEARISH">>, <<"INDECISIVE", "INDECISIVE">>>>, <<"STRONG", "BEARISH">>>>,
    <<<<<<"STRONG", "BEARISH">>, <<"MEDIUM", "BEARISH">>>>, <<"STRONG", "BEARISH">>>>,
    <<<<<<"STRONG", "BEARISH">>, <<"MEDIUM", "BULLISH">>>>, <<"MEDIUM", "BEARISH">>>>,
    <<<<<<"STRONG", "BEARISH">>, <<"STRONG", "BEARISH">>>>, <<"STRONG", "BEARISH">>>>,
    <<<<<<"STRONG", "BEARISH">>, <<"STRONG", "BULLISH">>>>, <<"INDECISIVE", "NEUTRAL">>>>,
    <<<<<<"STRONG", "BEARISH">>, <<"MILD", "BEARISH">>>>, <<"STRONG", "BEARISH">>>>,
    <<<<<<"STRONG", "BEARISH">>, <<"MILD", "BULLISH">>>>, <<"STRONG", "BEARISH">>>>,
    <<<<<<"MILD", "BULLISH">>, <<"INDECISIVE", "INDECISIVE">>>>, <<"INDECISIVE", "INDECISIVE">>>>,
    <<<<<<"MILD", "BULLISH">>, <<"MEDIUM", "BEARISH">>>>, <<"MILD", "BEARISH">>>>,
    <<<<<<"MILD", "BULLISH">>, <<"MEDIUM", "BULLISH">>>>, <<"MEDIUM", "BULLISH">>>>,
    <<<<<<"MILD", "BULLISH">>, <<"STRONG", "BEARISH">>>>, <<"STRONG", "BEARISH">>>>,
    <<<<<<"MILD", "BULLISH">>, <<"STRONG", "BULLISH">>>>, <<"STRONG", "BULLISH">>>>,
    <<<<<<"MILD", "BULLISH">>, <<"MILD", "BEARISH">>>>, <<"INDECISIVE", "INDECISIVE">>>>,
    <<<<<<"MILD", "BULLISH">>, <<"MILD", "BULLISH">>>>, <<"MILD", "BULLISH">>>>,
    <<<<<<"MILD", "BEARISH">>, <<"INDECISIVE", "INDECISIVE">>>>, <<"INDECISIVE", "INDECISIVE">>>>,
    <<<<<<"MILD", "BEARISH">>, <<"MEDIUM", "BEARISH">>>>, <<"MEDIUM", "BEARISH">>>>,
    <<<<<<"MILD", "BEARISH">>, <<"MEDIUM", "BULLISH">>>>, <<"MEDIUM", "BULLISH">>>>,
    <<<<<<"MILD", "BEARISH">>, <<"STRONG", "BEARISH">>>>, <<"STRONG", "BEARISH">>>>,
    <<<<<<"MILD", "BEARISH">>, <<"STRONG", "BULLISH">>>>, <<"STRONG", "BULLISH">>>>,
    <<<<<<"MILD", "BEARISH">>, <<"MILD", "BEARISH">>>>, <<"INDECISIVE", "INDECISIVE">>>>,
    <<<<<<"MILD", "BEARISH">>, <<"MILD", "BULLISH">>>>, <<"INDECISIVE", "INDECISIVE">>>>
  >>)

net_mapping_H ==
  Dict(<<
    <<<<<<MEDIUM, BULLISH>>, <<INDECISIVE, INDECISIVE>>>>, <<MEDIUM, BULLISH>>>>,
    <<<<<<MEDIUM, BULLISH>>, <<MEDIUM, BEARISH>>>>, <<INDECISIVE, VOLATILE>>>>,
    <<<<<<MEDIUM, BULLISH>>, <<MEDIUM, BULLISH>>>>, <<MEDIUM, BULLISH>>>>,
    <<<<<<MEDIUM, BULLISH>>, <<STRONG, BEARISH>>>>, <<MEDIUM, BEARISH>>>>,
    <<<<<<MEDIUM, BULLISH>>, <<STRONG, BULLISH>>>>, <<STRONG, BULLISH>>>>,
    <<<<<<MEDIUM, BULLISH>>, <<MILD, BEARISH>>>>, <<MEDIUM, BULLISH>>>>,
    <<<<<<MEDIUM, BULLISH>>, <<MILD, BULLISH>>>>, <<MEDIUM, BULLISH>>>>,
    <<<<<<MEDIUM, BEARISH>>, <<INDECISIVE, INDECISIVE>>>>, <<MEDIUM, BEARISH>>>>,
    <<<<<<MEDIUM, BEARISH>>, <<INDECISIVE, INDECISIVE>>>>, <<MEDIUM, BEARISH>>>>,
    <<<<<<MEDIUM, BEARISH>>, <<MEDIUM, BEARISH>>>>, <<MEDIUM, BEARISH>>>>,
    <<<<<<MEDIUM, BEARISH>>, <<MEDIUM, BULLISH>>>>, <<INDECISIVE, NEUTRAL>>>>,
    <<<<<<MEDIUM, BEARISH>>, <<STRONG, BEARISH>>>>, <<STRONG, BEARISH>>>>,
    <<<<<<MEDIUM, BEARISH>>, <<STRONG, BULLISH>>>>, <<STRONG, BULLISH>>>>,
    <<<<<<MEDIUM, BEARISH>>, <<MILD, BEARISH>>>>, <<MEDIUM, BEARISH>>>>,
    <<<<<<MEDIUM, BEARISH>>, <<MILD, BULLISH>>>>, <<MEDIUM, BEARISH>>>>,
    <<<<<<MEDIUM, BULLISH>>, <<INDECISIVE, INDECISIVE>>>>, <<MEDIUM, BULLISH>>>>,
    <<<<<<STRONG, BULLISH>>, <<INDECISIVE, INDECISIVE>>>>, <<STRONG, BULLISH>>>>,
    <<<<<<STRONG, BULLISH>>, <<MEDIUM, BEARISH>>>>, <<MEDIUM, BULLISH>>>>,
    <<<<<<STRONG, BULLISH>>, <<MEDIUM, BULLISH>>>>, <<STRONG, BULLISH>>>>,
    <<<<<<STRONG, BULLISH>>, <<STRONG, BEARISH>>>>, <<INDECISIVE, VOLATILE>>>>,
    <<<<<<STRONG, BULLISH>>, <<STRONG, BULLISH>>>>, <<STRONG, BULLISH>>>>,
    <<<<<<STRONG, BULLISH>>, <<MILD, BEARISH>>>>, <<STRONG, BULLISH>>>>,
    <<<<<<STRONG, BULLISH>>, <<MILD, BULLISH>>>>, <<STRONG, BULLISH>>>>,
    <<<<<<STRONG, BEARISH>>, <<INDECISIVE, INDECISIVE>>>>, <<STRONG, BEARISH>>>>,
    <<<<<<STRONG, BEARISH>>, <<INDECISIVE, INDECISIVE>>>>, <<STRONG, BEARISH>>>>,
    <<<<<<STRONG, BEARISH>>, <<MEDIUM, BEARISH>>>>, <<STRONG, BEARISH>>>>,
    <<<<<<STRONG, BEARISH>>, <<MEDIUM, BULLISH>>>>, <<MEDIUM, BEARISH>>>>,
    <<<<<<STRONG, BEARISH>>, <<STRONG, BEARISH>>>>, <<STRONG, BEARISH>>>>,
    <<<<<<STRONG, BEARISH>>, <<STRONG, BULLISH>>>>, <<INDECISIVE, NEUTRAL>>>>,
    <<<<<<STRONG, BEARISH>>, <<MILD, BEARISH>>>>, <<STRONG, BEARISH>>>>,
    <<<<<<STRONG, BEARISH>>, <<MILD, BULLISH>>>>, <<STRONG, BEARISH>>>>,
    <<<<<<STRONG, BULLISH>>, <<INDECISIVE, INDECISIVE>>>>, <<STRONG, BULLISH>>>>,
    <<<<<<MILD, BULLISH>>, <<INDECISIVE, INDECISIVE>>>>, <<INDECISIVE, INDECISIVE>>>>,
    <<<<<<MILD, BULLISH>>, <<MEDIUM, BEARISH>>>>, <<MILD, BEARISH>>>>,
    <<<<<<MILD, BULLISH>>, <<MEDIUM, BULLISH>>>>, <<MEDIUM, BULLISH>>>>,
    <<<<<<MILD, BULLISH>>, <<STRONG, BEARISH>>>>, <<STRONG, BEARISH>>>>,
    <<<<<<MILD, BULLISH>>, <<STRONG, BULLISH>>>>, <<STRONG, BULLISH>>>>,
    <<<<<<MILD, BULLISH>>, <<MILD, BEARISH>>>>, <<INDECISIVE, INDECISIVE>>>>,
    <<<<<<MILD, BULLISH>>, <<MILD, BULLISH>>>>, <<MILD, BULLISH>>>>,
    <<<<<<MILD, BEARISH>>, <<INDECISIVE, INDECISIVE>>>>, <<INDECISIVE, INDECISIVE>>>>,
    <<<<<<MILD, BEARISH>>, <<INDECISIVE, INDECISIVE>>>>, <<INDECISIVE, INDECISIVE>>>>,
    <<<<<<MILD, BEARISH>>, <<MEDIUM, BEARISH>>>>, <<MEDIUM, BEARISH>>>>,
    <<<<<<MILD, BEARISH>>, <<MEDIUM, BULLISH>>>>, <<MEDIUM, BULLISH>>>>,
    <<<<<<MILD, BEARISH>>, <<STRONG, BEARISH>>>>, <<STRONG, BEARISH>>>>,
    <<<<<<MILD, BEARISH>>, <<STRONG, BULLISH>>>>, <<STRONG, BULLISH>>>>,
    <<<<<<MILD, BEARISH>>, <<MILD, BEARISH>>>>, <<INDECISIVE, INDECISIVE>>>>,
    <<<<<<MILD, BEARISH>>, <<MILD, BULLISH>>>>, <<INDECISIVE, INDECISIVE>>>>,
    <<<<<<MILD, BULLISH>>, <<INDECISIVE, INDECISIVE>>>>, <<INDECISIVE, INDECISIVE>>>>
  >>)

\* the Net Options label of calculate_strength_for_date, from the Call and
\* the Put final_strength strings
\* variant: the tuple formatted whatever its sentiment
net_final_R_always_formatted(call_final, put_final) ==
  LET net_tuple == DictGet(net_oi_mapping_R,
                           <<parse_strength(call_final), parse_strength(put_final)>>,
                           <<"INDECISIVE", "INDECISIVE">>)
  IN Fmt(net_tuple[1], net_tuple[2])

net_final_R(call_final, put_final) ==
  LET call_tuple == parse_strength(call_final)
      put_tuple == parse_strength(put_final)
      net_tuple == DictGet(net_oi_mapping_R, <<call_tuple, put_tuple>>,
                           <<"INDECISIVE", "INDECISIVE">>)
      net_intensity == net_tuple[1]
      net_sentiment == net_tuple[2]
  IN IF net_sentiment # "INDECISIVE" THEN Fmt(net_intensity, net_sentiment)
     ELSE "INDECISIVE"

net_final_C3(call_final, put_final) ==
  LET call_tuple == parse_strength(call_final)
      put_tuple == parse_strength(put_final)
      net_tuple == DictGet(net_oi_mapping_C3, <<call_tuple, put_tuple>>,
                           <<"INDECISIVE", "INDECISIVE">>)
      net_intensity == net_tuple[1]
      net_sentiment == net_tuple[2]
  IN IF net_sentiment # "INDECISIVE" THEN Fmt(net_intensity, net_sentiment)
     ELSE "INDECISIVE"

get_net_strength_view_from_call_put_values(call_strength, call_view, put_strength, put_view) ==
  DictGet(net_mapping_H,
          <<<<call_strength, call_view>>, <<put_strength, put_view>>>>,
          <<INDECISIVE, INDECISIVE>>)

(***************************************************************************)
(* PercentileThresholdEstimator.  The result is [err, val]: val is the     *)
(* threshold in hundredths, err is "IndexError" when the code reads        *)
(* outside the list.                                                        *)
(***************************************************************************)
\* list[i] + frac * (list[i + 1] - list[i]), frac in hundredths
Interpolate(lo, hi, frac) ==
  IF lo.err # "" \/ hi.err # "" THEN [err |-> "IndexError", val |-> 0]
  ELSE [err |-> "", val |-> PctDen * lo.val + frac * (hi.val - lo.val)]

\* a list element returned as it is
Exact(e) == IF e.err # "" THEN e ELSE [err |-> "", val |-> PctDen * e.val]

\* variant: the interpolation started from the upper neighbour
get_threshold_R_from_upper(percentile, sorted_list) ==
  LET t_pos == percentile * (Len(sorted_list) - 1)
      t_pos_int == t_pos \div PctDen
      t_pos_frac == t_pos % PctDen
  IN IF Len(sorted_list) <= 1
     THEN (IF Len(sorted_list) > 0 THEN Exact(PyIndex(sorted_list, 0))
           ELSE [err |-> "", val |-> 0])
     ELSE IF t_pos_int >= Len(sorted_list) - 1 THEN Exact(PyIndex(sorted_list, -1))
     ELSE IF t_pos_frac = 0 THEN Exact(PyIndex(sorted_list, t_pos_int))
     ELSE Interpolate(PyIndex(sorted_list, t_pos_int + 1),
                      [err |-> "", val |-> 2 * sorted_list[t_pos_int + 2]
                                            - sorted_list[t_pos_int + 1]],
                      t_pos_frac)

get_threshold_R(percentile, sorted_list) ==
  LET t_pos == percentile * (Len(sorted_list) - 1)
      t_pos_int == t_pos \div PctDen
      t_pos_frac == t_pos % PctDen
  IN IF Len(sorted_list) <= 1
     THEN (IF Len(sorted_list) > 0 THEN Exact(PyIndex(sorted_list, 0))
           ELSE [err |-> "", val |-> 0])
     ELSE IF t_pos_int >= Len(sorted_list) - 1 THEN Exact(PyIndex(sorted_list, -1))
     ELSE IF t_pos_frac = 0 THEN Exact(PyIndex(sorted_list, t_pos_int))
     ELSE Interpolate(PyIndex(sorted_list, t_pos_int),
                      PyIndex(sorted_list, t_pos_int + 1), t_pos_frac)

get_threshold_C3(percentile, sorted_list) ==
  LET t_pos == percentile * (Len(sorted_list) - 1)
      t_pos_int == t_pos \div PctDen
      t_pos_frac == t_pos % PctDen
  IN IF Len(sorted_list) <= 1
     THEN (IF Len(sorted_list) > 0 THEN Exact(PyIndex(sorted_list, 0))
           ELSE [err |-> "", val |-> 0])
     ELSE IF t_pos_int >= Len(sorted_list) - 1 THEN Exact(PyIndex(sorted_list, -1))
     ELSE IF t_pos_frac = 0 THEN Exact(PyIndex(sorted_list, t_pos_int))
     ELSE Interpolate(PyIndex(sorted_list, t_pos_int),
                      PyIndex(sorted_list, t_pos_int + 1), t_pos_frac)

\* variant: interpolates without testing the fractional part first
get_threshold_M2_always_interpolate(percentile, sorted_list) ==
  LET t_pos == percentile * (Len(sorted_list) - 1)
      t_pos_int == t_pos \div PctDen
      t_pos_frac == t_pos % PctDen
  IN Interpolate(PyIndex(sorted_list, t_pos_int),
                 PyIndex(sorted_list, t_pos_int + 1), t_pos_frac)

get_threshold_M2(percentile, sorted_list) ==
  LET t_pos == percentile * (Len(sorted_list) - 1)
      t_pos_int == t_pos \div PctDen
      t_pos_frac == t_pos % PctDen
  IN IF t_pos_frac = 0 THEN Exact(PyIndex(sorted_list, t_pos_int))
     ELSE Interpolate(PyIndex(sorted_list, t_pos_int),
                      PyIndex(sorted_list, t_pos_int + 1), t_pos_frac)

get_threshold_H(percentile, sorted_list) ==
  LET t_pos == percentile * (Len(sorted_list) - 1)
      t_pos_int == t_pos \div PctDen
      t_pos_frac == t_pos % PctDen
  IN IF t_pos_frac = 0 THEN Exact(PyIndex(sorted_list, t_pos_int))
     ELSE Interpolate(PyIndex(sorted_list, t_pos_int),
                      PyIndex(sorted_list, t_pos_int + 1), t_pos_frac)

(***************************************************************************)
(* SegmentClassifier.  value is a float cell, the thresholds are in        *)
(* hundredths.                                                              *)
(***************************************************************************)
\* variant: the lower threshold tested before the 80th percentile
get_strength_level_R_lower_first(value, percentile_80, percentile_40_20, is_change) ==
  IF GeThreshold(Abs(value), percentile_40_20) THEN "MEDIUM"
  ELSE IF GeThreshold(Abs(value), percentile_80) THEN "STRONG"
  ELSE "MILD"

get_strength_level_R(value, percentile_80, percentile_40_20, is_change) ==
  LET abs_value == Abs(value)
      threshold == IF ~is_change THEN percentile_40_20 ELSE percentile_40_20
  IN IF GeThreshold(abs_value, percentile_80) THEN "STRONG"
     ELSE IF GeThreshold(abs_value, threshold) THEN "MEDIUM"
     ELSE "MILD"

get_strength_level_C3(value, percentile_80, percentile_40_20, is_change) ==
  LET abs_value == Abs(value)
      threshold == IF ~is_change THEN percentile_40_20 ELSE percentile_40_20
  IN IF GeThreshold(abs_value, percentile_80) THEN "STRONG"
     ELSE IF GeThreshold(abs_value, threshold) THEN "MEDIUM"
     ELSE "MILD"

\* variant: the change branch compares with > instead of >=
get_strength_level_M2_strict(value, percentile_80, percentile_40_20, is_change) ==
  LET abs_value == Abs(value)
  IN IF is_change
     THEN (IF ~IsNaN(abs_value) /\ abs_value[1] * PctDen > percentile_80 THEN "STRONG"
           ELSE IF ~IsNaN(abs_value) /\ abs_value[1] * PctDen > percentile_40_20 THEN "MEDIUM"
           ELSE "MILD")
     ELSE (IF GeThreshold(abs_value, percentile_80) THEN "STRONG"
           ELSE IF GeThreshold(abs_value, percentile_40_20) THEN "MEDIUM"
           ELSE "MILD")

get_strength_level_M2(value, percentile_80, percentile_40_20, is_change) ==
  LET abs_value == Abs(value)
  IN IF is_change
     THEN (IF GeThreshold(abs_value, percentile_80) THEN "STRONG"
           ELSE IF GeThreshold(abs_value, percentile_40_20) THEN "MEDIUM"
           ELSE "MILD")
     ELSE (IF GeThreshold(abs_value, percentile_80) THEN "STRONG"
           ELSE IF GeThreshold(abs_value, percentile_40_20) THEN "MEDIUM"
           ELSE "MILD")

\* the segment names, among those the scripts pass, that contain the
\* substring 'Put Options'
ContainsPutOptions == {"Put Options"}

\* variant: the Put Options inversion left out
get_direction_R_no_inversion(value, segment_name) ==
  IF GtZero(value) THEN "BULLISH" ELSE "BEARISH"

get_direction_R(value, segment_name) ==
  IF segment_name \in ContainsPutOptions
  THEN (IF GtZero(value) THEN "BEARISH" ELSE "BULLISH")
  ELSE (IF GtZero(value) THEN "BULLISH" ELSE "BEARISH")

get_direction_C3(value, segment_name) ==
  IF segment_name \in ContainsPutOptions
  THEN (IF GtZero(value) THEN "BEARISH" ELSE "BULLISH")
  ELSE (IF GtZero(value) THEN "BULLISH" ELSE "BEARISH")

get_direction_M2(value, segment_type) ==
  IF segment_type \in {"FUTURE_INDEX", "FUTURE-INDEX", "INDEX_FUTURES"}
  THEN (IF GtZero(value) THEN "BULLISH" ELSE "BEARISH")
  ELSE IF segment_type \in {"CALL", "CALL_OPTIONS", "CALL_OI", "Call Options"}
  THEN (IF GtZero(value) THEN "BULLISH" ELSE "BEARISH")
  ELSE IF segment_type \in {"PUT", "PUT_OPTIONS", "PUT_OI", "Put Options"}
  THEN (IF GtZero(value) THEN "BEARISH" ELSE "BULLISH")
  ELSE (IF GtZero(value) THEN "BULLISH" ELSE "BEARISH")

get_direction_C1(value, segment_type) ==
  IF segment_type \in {"FUTURE_INDEX", "FUTURE-INDEX", "INDEX_FUTURES"}
  THEN (IF GtZero(value) THEN "BULLISH" ELSE "BEARISH")
  ELSE IF segment_type \in {"CALL", "CALL_OPTIONS"}
  THEN (IF GtZero(value) THEN "BULLISH" ELSE "BEARISH")
  ELSE IF segment_type \in {"PUT", "PUT_OPTIONS"}
  THEN (IF GtZero(value) THEN "BEARISH" ELSE "BULLISH")
  ELSE (IF GtZero(value) THEN "BULLISH" ELSE "BEARISH")

get_strength_level_C1(value, percentile_80, percentile_40_20, is_change) ==
  LET abs_value == Abs(value)
  IN IF is_change
     THEN (IF GeThreshold(abs_value, percentile_80) THEN "STRONG"
           ELSE IF GeThreshold(abs_value, percentile_40_20) THEN "MEDIUM"
           ELSE "MILD")
     ELSE (IF GeThreshold(abs_value, percentile_80) THEN "STRONG"
           ELSE IF GeThreshold(abs_value, percentile_40_20) THEN "MEDIUM"
           ELSE "MILD")

\* the (segment_name, oi_col, change_col) triples of
\* fii_strength_calculator.py
segments_to_analyze_C1 ==
  <<<<"Index Futures", "FUTURE_INDEX", "FUTURE_INDEX_CHANGE">>,
    <<"Call Options", "CALL_OI", "CALL_OI_CHANGE">>,
    <<"Put Options", "PUT_OI", "PUT_OI_CHANGE">>>>

\* the labels of one segment of calculate_strength_for_date of
\* fii_strength_calculator.py, given the cells of the date and the four
\* numpy percentiles; both directions are asked for with the column name
\* oi_col
segment_strength_C1(segment, current_oi, current_change, oi_p80, oi_p40, change_p80, change_p20) ==
  LET oi_col == segment[2]
      oi_strength == get_strength_level_C1(current_oi, oi_p80, oi_p40, FALSE)
      change_strength == get_strength_level_C1(current_change, change_p80, change_p20, TRUE)
      oi_direction == get_direction_C1(current_oi, oi_col)
      change_direction == get_direction_C1(current_change, oi_col)
  IN [segment |-> segment[1],
      oi_strength |-> Fmt(oi_strength, oi_direction),
      change_strength |-> Fmt(change_strength, change_direction),
      final_strength |-> apply_truth_table_C1(oi_strength, oi_direction,
                                              change_strength, change_direction)]

(***************************************************************************)
(* BacktestEvaluator: the expectation table and the scoring of one date.   *)
(***************************************************************************)
expectations ==
  Dict(<<
    <<<<"INDECISIVE", "MEDIUM BEARISH">>, Dict(<<<<"CLIENT", "FLAT OR UP">>, <<"OTHER", "DOWN">>>>)>>,
    <<<<"INDECISIVE", "MEDIUM BULLISH">>, Dict(<<<<"CLIENT", "FLAT OR DOWN">>, <<"OTHER", "FLAT OR UP">>>>)>>,
    <<<<"INDECISIVE", "MILD BEARISH">>, Dict(<<<<"CLIENT", "">>, <<"OTHER", "">>>>)>>,
    <<<<"INDECISIVE", "MILD BULLISH">>, Dict(<<<<"CLIENT", "">>, <<"OTHER", "">>>>)>>,
    <<<<"INDECISIVE", "STRONG BEARISH">>, Dict(<<<<"CLIENT", "FLAT OR UP">>, <<"OTHER", "DOWN">>>>)>>,
    <<<<"INDECISIVE", "STRONG BULLISH">>, Dict(<<<<"CLIENT", "DOWN">>, <<"OTHER", "FLAT OR UP">>>>)>>,
    <<<<"MEDIUM BEARISH", "INDECISIVE">>, Dict(<<<<"CLIENT", "FLAT OR UP">>, <<"OTHER", "DOWN">>>>)>>,
    <<<<"MEDIUM BEARISH", "MEDIUM BEARISH">>, Dict(<<<<"CLIENT", "FLAT OR UP">>, <<"OTHER", "DOWN">>>>)>>,
    <<<<"MEDIUM BEARISH", "MEDIUM BULLISH">>, Dict(<<<<"CLIENT", "VOLATILE">>, <<"OTHER", "NEUTRAL">>>>)>>,
    <<<<"MEDIUM BEARISH", "MILD BEARISH">>, Dict(<<<<"CLIENT", "FLAT OR UP">>, <<"OTHER", "FLAT OR DOWN">>>>)>>,
    <<<<"MEDIUM BEARISH", "MILD BULLISH">>, Dict(<<<<"CLIENT", "FLAT OR UP">>, <<"OTHER", "FLAT OR DOWN">>>>)>>,
    <<<<"MEDIUM BEARISH", "STRONG BEARISH">>, Dict(<<<<"CLIENT", "FLAT OR UP">>, <<"OTHER", "DOWN">>>>)>>,
    <<<<"MEDIUM BEARISH", "STRONG BULLISH">>, Dict(<<<<"CLIENT", "DOWN">>, <<"OTHER", "FLAT OR UP">>>>)>>,
    <<<<"MEDIUM BULLISH", "INDECISIVE">>, Dict(<<<<"CLIENT", "FLAT OR DOWN">>, <<"OTHER", "UP">>>>)>>,
    <<<<"MEDIUM BULLISH", "MEDIUM BEARISH">>, Dict(<<<<"CLIENT", "FLAT">>, <<"OTHER", "NEUTRAL">>>>)>>,
    <<<<"MEDIUM BULLISH", "MEDIUM BULLISH">>, Dict(<<<<"CLIENT", "FLAT OR DOWN">>, <<"OTHER", "UP">>>>)>>,
    <<<<"MEDIUM BULLISH", "MILD BEARISH">>, Dict(<<<<"CLIENT", "FLAT OR DOWN">>, <<"OTHER", "UP">>>>)>>,
    <<<<"MEDIUM BULLISH", "MILD BULLISH">>, Dict(<<<<"CLIENT", "FLAT OR DOWN">>, <<"OTHER", "UP">>>>)>>,
    <<<<"MEDIUM BULLISH", "STRONG BEARISH">>, Dict(<<<<"CLIENT", "FLAT OR UP">>, <<"OTHER", "DOWN">>>>)>>,
    <<<<"MEDIUM BULLISH", "STRONG BULLISH">>, Dict(<<<<"CLIENT", "DOWN">>, <<"OTHER", "FLAT OR UP">>>>)>>,
    <<<<"MILD BEARISH", "INDECISIVE">>, Dict(<<<<"CLIENT", "">>, <<"OTHER", "">>>>)>>,
    <<<<"MILD BEARISH", "MEDIUM BEARISH">>, Dict(<<<<"CLIENT", "FLAT OR UP">>, <<"OTHER", "FLAT OR DOWN">>>>)>>,
    <<<<"MILD BEARISH", "MEDIUM BULLISH">>, Dict(<<<<"CLIENT", "FLAT OR DOWN">>, <<"OTHER", "FLAT OR UP">>>>)>>,
    <<<<"MILD BEARISH", "MILD BEARISH">>, Dict(<<<<"CLIENT", "">>, <<"OTHER", "">>>>)>>,
    <<<<"MILD BEARISH", "MILD BULLISH">>, Dict(<<<<"CLIENT", "">>, <<"OTHER", "">>>>)>>,
    <<<<"MILD BEARISH", "STRONG BEARISH">>, Dict(<<<<"CLIENT", "FLAT OR UP">>, <<"OTHER", "DOWN">>>>)>>,
    <<<<"MILD BEARISH", "STRONG BULLISH">>, Dict(<<<<"CLIENT", "DOWN">>, <<"OTHER", "FLAT OR UP">>>>)>>,
    <<<<"MILD BULLISH", "INDECISIVE">>, Dict(<<<<"CLIENT", "">>, <<"OTHER", "">>>>)>>,
    <<<<"MILD BULLISH", "MEDIUM BEARISH">>, Dict(<<<<"CLIENT", "FLAT OR UP">>, <<"OTHER", "DOWN">>>>)>>,
    <<<<"MILD BULLISH", "MEDIUM BULLISH">>, Dict(<<<<"CLIENT", "FLAT OR DOWN">>, <<"OTHER", "FLAT OR UP">>>>)>>,
    <<<<"MILD BULLISH", "MILD BEARISH">>, Dict(<<<<"CLIENT", "">>, <<"OTHER", "">>>>)>>,
    <<<<"MILD BULLISH", "MILD BULLISH">>, Dict(<<<<"CLIENT", "FLAT OR DOWN">>, <<"OTHER", "UP">>>>)>>,
    <<<<"MILD BULLISH", "STRONG BEARISH">>, Dict(<<<<"CLIENT", "FLAT OR UP">>, <<"OTHER", "DOWN">>>>)>>,
    <<<<"MILD BULLISH", "STRONG BULLISH">>, Dict(<<<<"CLIENT", "DOWN">>, <<"OTHER", "FLAT OR UP">>>>)>>,
    <<<<"STRONG BEARISH", "INDECISIVE">>, Dict(<<<<"CLIENT", "FLAT OR UP">>, <<"OTHER", "FLAT OR DOWN">>>>)>>,
    <<<<"STRONG BEARISH", "MEDIUM BEARISH">>, Dict(<<<<"CLIENT", "UP">>, <<"OTHER", "FLAT OR DOWN">>>>)>>,
    <<<<"STRONG BEARISH", "MEDIUM BULLISH">>, Dict(<<<<"CLIENT", "FLAT OR UP">>, <<"OTHER", "FLAT OR DOWN">>>>)>>,
    <<<<"STRONG BEARISH", "MILD BEARISH">>, Dict(<<<<"CLIENT", "UP">>, <<"OTHER", "FLAT OR DOWN">>>>)>>,
    <<<<"STRONG BEARISH", "MILD BULLISH">>, Dict(<<<<"CLIENT", "UP">>, <<"OTHER", "FLAT OR DOWN">>>>)>>,
    <<<<"STRONG BEARISH", "STRONG BEARISH">>, Dict(<<<<"CLIENT", "UP">>, <<"OTHER", "DOWN">>>>)>>,
    <<<<"STRONG BEARISH", "STRONG BULLISH">>, Dict(<<<<"CLIENT", "VOLATILE">>, <<"OTHER", "NEUTRAL">>>>)>>,
    <<<<"STRONG BULLISH", "INDECISIVE">>, Dict(<<<<"CLIENT", "FLAT OR DOWN">>, <<"OTHER", "UP">>>>)>>,
    <<<<"STRONG BULLISH", "MEDIUM BEARISH">>, Dict(<<<<"CLIENT", "FLAT OR DOWN">>, <<"OTHER", "UP">>>>)>>,
    <<<<"STRONG BULLISH", "MEDIUM BULLISH">>, Dict(<<<<"CLIENT", "FLAT OR DOWN">>, <<"OTHER", "UP">>>>)>>,
    <<<<"STRONG BULLISH", "MILD BEARISH">>, Dict(<<<<"CLIENT", "FLAT OR DOWN">>, <<"OTHER", "UP">>>>)>>,
    <<<<"STRONG BULLISH", "MILD BULLISH">>, Dict(<<<<"CLIENT", "FLAT OR DOWN">>, <<"OTHER", "UP">>>>)>>,
    <<<<"STRONG BULLISH", "STRONG BEARISH">>, Dict(<<<<"CLIENT", "FLAT">>, <<"OTHER", "VOLATILE">>>>)>>,
    <<<<"STRONG BULLISH", "STRONG BULLISH">>, Dict(<<<<"CLIENT", "DOWN">>, <<"OTHER", "UP">>>>)>>,
    <<<<"INDECISIVE", "INDECISIVE">>, Dict(<<<<"CLIENT", "">>, <<"OTHER", "">>>>)>>
  >>)

\* the movement thresholds 0.2, 0.3, 0.4 (percent), in tenths
thresholds == <<2, 3, 4>>
ThrDen == 10

\* variant: the return taken relative to the next close
next_change_pct_over_next(next_nifty, current_nifty) ==
  [num |-> (next_nifty - current_nifty) * 100, den |-> next_nifty]

\* ((next_nifty - current_nifty) / current_nifty) * 100 as the fraction
\* num / den, den = current_nifty > 0
next_change_pct(next_nifty, current_nifty) ==
  [num |-> (next_nifty - current_nifty) * 100, den |-> current_nifty]

AbsInt(n) == IF n < 0 THEN -n ELSE n

\* expectations.get(key, ...) with the two columns exchanged
exp_str_for_columns_exchanged(institution, call_strength, put_strength) ==
  LET key == <<call_strength, put_strength>>
      exp == DictGet(expectations, key, Dict(<<<<"CLIENT", "">>, <<"OTHER", "">>>>))
  IN IF institution = "CLIENT" THEN DictGet(exp, "OTHER", "") ELSE DictGet(exp, "CLIENT", "")

\* expectations.get(key, ...) and the choice of the CLIENT or OTHER column
exp_str_for(institution, call_strength, put_strength) ==
  LET key == <<call_strength, put_strength>>
      exp == DictGet(expectations, key, Dict(<<<<"CLIENT", "">>, <<"OTHER", "">>>>))
      client_exp == DictGet(exp, "CLIENT", "")
      other_exp == DictGet(exp, "OTHER", "")
      is_client == institution = "CLIENT"
  IN IF is_client THEN client_exp ELSE other_exp

\* the scoring with a strict "flat" band: a return of exactly the threshold
\* is not flat
score_strict_flat(exp_str, pct, actual_threshold) ==
  IF exp_str = "" THEN "indecisive"
  ELSE IF exp_str = "UP" THEN (IF pct.num > 0 THEN "correct" ELSE "wrong")
  ELSE IF exp_str = "DOWN" THEN (IF pct.num < 0 THEN "correct" ELSE "wrong")
  ELSE IF exp_str \in {"FLAT", "NEUTRAL"}
       THEN (IF AbsInt(pct.num) * ThrDen < actual_threshold * pct.den
             THEN "correct" ELSE "wrong")
  ELSE IF exp_str = "FLAT OR UP"
       THEN (IF pct.num * ThrDen >= -actual_threshold * pct.den THEN "correct" ELSE "wrong")
  ELSE IF exp_str = "FLAT OR DOWN"
       THEN (IF pct.num * ThrDen <= actual_threshold * pct.den THEN "correct" ELSE "wrong")
  ELSE IF exp_str = "VOLATILE"
       THEN (IF AbsInt(pct.num) * ThrDen > actual_threshold * pct.den
             THEN "correct" ELSE "wrong")
  ELSE "indecisive"

\* the counter one (date, institution) increments, for an expectation string,
\* a forward return pct = num / den and a movement threshold in tenths
score(exp_str, pct, actual_threshold) ==
  LET is_up == pct.num > 0
      is_down == pct.num < 0
      is_flat == AbsInt(pct.num) * ThrDen <= actual_threshold * pct.den
      is_volatile == AbsInt(pct.num) * ThrDen > actual_threshold * pct.den
  IN IF exp_str = "" THEN "indecisive"
     ELSE IF exp_str = "UP" THEN (IF is_up THEN "correct" ELSE "wrong")
     ELSE IF exp_str = "DOWN" THEN (IF is_down THEN "correct" ELSE "wrong")
     ELSE IF exp_str \in {"FLAT", "NEUTRAL"} THEN (IF is_flat THEN "correct" ELSE "wrong")
     ELSE IF exp_str = "FLAT OR UP"
          THEN (IF pct.num * ThrDen >= -actual_threshold * pct.den THEN "correct" ELSE "wrong")
     ELSE IF exp_str = "FLAT OR DOWN"
          THEN (IF pct.num * ThrDen <= actual_threshold * pct.den THEN "correct" ELSE "wrong")
     ELSE IF exp_str = "VOLATILE" THEN (IF is_volatile THEN "correct" ELSE "wrong")
     ELSE "indecisive"

(***************************************************************************)
(* The data frame.  A row is a record with the fields date, institution,   *)
(* FUTURE_INDEX, CALL_OI, PUT_OI and the three _CHANGE columns; a frame is *)
(* the set of its rows (one row per date and institution after the pivot). *)
(* Dates are the integers 1, 2, ... in calendar order.                      *)
(***************************************************************************)
\* the institutions in the order the loops visit them
institution_order == <<"FII", "PRO", "CLIENT">>

\* (segment_name, oi_col, change_col, percentile_key) of part_000
segments_R ==
  << <<"Index Futures", "FUTURE_INDEX", "FUTURE_INDEX_CHANGE", "Index Futures">>,
     <<"Call Options", "CALL_OI", "CALL_OI_CHANGE", "Call Options">>,
     <<"Put Options", "PUT_OI", "PUT_OI_CHANGE", "Put Options">> >>

\* a - b on float cells
Sub(a, b) == IF IsNaN(a) \/ IsNaN(b) THEN NaN ELSE Num(a[1] - b[1])

\* sorted(...) of a list of integers
Sorted(list) == SortSeq(list, LAMBDA a, b : a < b)

\* sorted(set of dates, reverse=True)
RECURSIVE SortedDesc(_)
SortedDesc(S) ==
  IF S = {} THEN << >>
  ELSE LET m == CHOOSE x \in S : \A y \in S : y <= x
       IN <<m>> \o SortedDesc(S \ {m})

\* list[:k]
Take(list, k) ==
  IF k >= Len(list) THEN list
  ELSE IF k <= 0 THEN << >>
  ELSE SubSeq(list, 1, k)

\* list[1:k]
Slice1(list, k) ==
  LET stop == IF k >= Len(list) THEN Len(list) ELSE k
  IN IF stop < 2 THEN << >> ELSE SubSeq(list, 2, stop)

Range(list) == {list[i] : i \in DOMAIN list}

\* column.dropna() of a frame whose rows have distinct dates, as a list of
\* absolute values in date order
RECURSIVE AbsValues(_, _)
AbsValues(rows, col) ==
  IF rows = {} THEN << >>
  ELSE LET r == CHOOSE x \in rows : \A y \in rows : x.date <= y.date
           rest == AbsValues(rows \ {r}, col)
       IN IF IsNaN(r[col]) THEN rest ELSE <<Abs(r[col])[1]>> \o rest

\* df.groupby('institution')[col].diff() followed by fillna(0)
DiffFill(raw, r, col) ==
  LET before == {x \in raw : x.institution = r.institution /\ x.date < r.date}
  IN IF before = {} THEN Num(0)
     ELSE LET prev == CHOOSE x \in before : \A y \in before : y.date <= x.date
              diff == Sub(r[col], prev[col])
          IN IF IsNaN(diff) THEN Num(0) ELSE diff

\* load_data after the pivot: raw is the set of pivoted rows
load_data(raw) ==
  LET with_change ==
        {[date |-> r.date, institution |-> r.institution,
          FUTURE_INDEX |-> r.FUTURE_INDEX, CALL_OI |-> r.CALL_OI, PUT_OI |-> r.PUT_OI,
          FUTURE_INDEX_CHANGE |-> DiffFill(raw, r, "FUTURE_INDEX"),
          CALL_OI_CHANGE |-> DiffFill(raw, r, "CALL_OI"),
          PUT_OI_CHANGE |-> DiffFill(raw, r, "PUT_OI")] : r \in raw}
  IN {r \in with_change : r.institution \in {"FII", "PRO", "CLIENT"}}

(***************************************************************************)
(* Thresholds and labels of part_000 (respective percentiles).              *)
(***************************************************************************)
\* variant: the 80th and the lower percentile exchanged
percentile_entry_R_exchanged(inst_data, oi_col, change_col) ==
  [oi_p80 |-> get_threshold_R(40, Sorted(AbsValues(inst_data, oi_col))).val,
   oi_p40 |-> get_threshold_R(80, Sorted(AbsValues(inst_data, oi_col))).val,
   change_p80 |-> get_threshold_R(20, Sorted(AbsValues(inst_data, change_col))).val,
   change_p20 |-> get_threshold_R(80, Sorted(AbsValues(inst_data, change_col))).val]

percentile_entry_R(inst_data, oi_col, change_col) ==
  LET oi_sorted == Sorted(AbsValues(inst_data, oi_col))
      change_sorted == Sorted(AbsValues(inst_data, change_col))
  IN [oi_p80 |-> get_threshold_R(80, oi_sorted).val,
      oi_p40 |-> get_threshold_R(40, oi_sorted).val,
      change_p80 |-> get_threshold_R(80, change_sorted).val,
      change_p20 |-> get_threshold_R(20, change_sorted).val]

\* variant: the rows of every institution taken into the samples
calculate_respective_percentiles_all_rows(historical_data, institution) ==
  [name \in {segments_R[i][1] :
               i \in {j \in 1..3 : /\ Len(AbsValues(historical_data, segments_R[j][2])) > 0
                                   /\ Len(AbsValues(historical_data, segments_R[j][3])) > 0}} |->
     LET i == CHOOSE j \in 1..3 : segments_R[j][1] = name
     IN percentile_entry_R(historical_data, segments_R[i][2], segments_R[i][3])]

calculate_respective_percentiles(historical_data, institution) ==
  LET inst_data == {r \in historical_data : r.institution = institution}
      has(i) == /\ Len(AbsValues(inst_data, segments_R[i][2])) > 0
                /\ Len(AbsValues(inst_data, segments_R[i][3])) > 0
  IN [name \in {segments_R[i][1] : i \in {j \in 1..3 : has(j)}} |->
        LET i == CHOOSE j \in 1..3 : segments_R[j][1] = name
        IN percentile_entry_R(inst_data, segments_R[i][2], segments_R[i][3])]

\* the percentiles of every institution that has rows in historical_data
institution_percentiles_R(historical_data) ==
  [inst \in {i \in Range(institution_order) :
               {r \in historical_data : r.institution = i} # {}} |->
     calculate_respective_percentiles(
       {r \in historical_data : r.institution = inst}, inst)]

\* the record of one segment with the change tier taken against the OI
\* thresholds of the segment
segment_result_R_change_against_oi(target_date, institution, row, seg, p_data) ==
  [date |-> target_date, institution |-> institution, segment |-> seg[1],
   net_oi |-> row[seg[2]], change |-> row[seg[3]],
   final_strength |->
     apply_truth_table_R(
       get_strength_level_R(row[seg[2]], p_data.oi_p80, p_data.oi_p40, FALSE),
       get_direction_R(row[seg[2]], seg[1]),
       get_strength_level_R(row[seg[3]], p_data.oi_p80, p_data.oi_p40, TRUE),
       get_direction_R(row[seg[3]], seg[1]))]

\* the body of the loop over the segments: the record of one segment
segment_result_R(target_date, institution, row, seg, p_data) ==
  LET segment_name == seg[1]
      current_oi == row[seg[2]]
      current_change == row[seg[3]]
      oi_strength == get_strength_level_R(current_oi, p_data.oi_p80, p_data.oi_p40, FALSE)
      change_strength ==
        get_strength_level_R(current_change, p_data.change_p80, p_data.change_p20, TRUE)
      oi_direction == get_direction_R(current_oi, segment_name)
      change_direction == get_direction_R(current_change, segment_name)
      final_strength ==
        apply_truth_table_R(oi_strength, oi_direction, change_strength, change_direction)
  IN [date |-> target_date, institution |-> institution, segment |-> segment_name,
      net_oi |-> current_oi, change |-> current_change,
      final_strength |-> final_strength]

\* variant: the first record of the segment, of whichever institution
FirstResult_any_institution(results, segment, institution) ==
  LET hits == {i \in DOMAIN results : results[i].segment = segment}
  IN IF hits = {} THEN << >>
     ELSE <<results[CHOOSE i \in hits : \A j \in hits : i <= j]>>

\* next((r for r in results if r['segment'] == segment and
\*       r['institution'] == institution), None) as a list of 0 or 1 records
FirstResult(results, segment, institution) ==
  LET hits == {i \in DOMAIN results : /\ results[i].segment = segment
                                      /\ results[i].institution = institution}
  IN IF hits = {} THEN << >>
     ELSE <<results[CHOOSE i \in hits : \A j \in hits : i <= j]>>

\* the records one institution adds to results
institution_results_R(target_date, institution, target_data, institution_percentiles, results) ==
  LET inst_data == {r \in target_data : r.institution = institution}
  IN IF institution \notin DOMAIN institution_percentiles THEN results
     ELSE IF inst_data = {} THEN results
     ELSE
       LET inst_percentiles == institution_percentiles[institution]
           row == CHOOSE r \in inst_data : TRUE
           segments == SelectSeq(segments_R, LAMBDA seg : seg[4] \in DOMAIN inst_percentiles)
           seg_results ==
             [i \in 1..Len(segments) |->
                segment_result_R(target_date, institution, row, segments[i],
                                 inst_percentiles[segments[i][4]])]
           results1 == results \o seg_results
           call_result == FirstResult(results1, "Call Options", institution)
           put_result == FirstResult(results1, "Put Options", institution)
       IN IF call_result # << >> /\ put_result # << >>
          THEN results1 \o
               <<[date |-> target_date, institution |-> institution,
                  segment |-> "Net Options",
                  net_oi |-> Sub(call_result[1].net_oi, put_result[1].net_oi),
                  change |-> Sub(call_result[1].change, put_result[1].change),
                  final_strength |-> net_final_R(call_result[1].final_strength,
                                                 put_result[1].final_strength)]>>
          ELSE results1

RECURSIVE results_loop_R(_, _, _, _, _)
results_loop_R(i, target_date, target_data, institution_percentiles, results) ==
  IF i > Len(institution_order) THEN results
  ELSE results_loop_R(i + 1, target_date, target_data, institution_percentiles,
         institution_results_R(target_date, institution_order[i], target_data,
                               institution_percentiles, results))

calculate_strength_for_date_R(frame, target_date, institution_percentiles) ==
  LET target_data == {r \in frame : r.date = target_date}
  IN results_loop_R(1, target_date, target_data, institution_percentiles, << >>)

(***************************************************************************)
(* Thresholds and labels of fii_strength_calculator_3.py (one threshold    *)
(* set for the three institutions together, Call and Put pooled).           *)
(***************************************************************************)
\* (segment_name, oi_col, change_col, percentile_key)
segments_C3 ==
  << <<"Index Futures", "FUTURE_INDEX", "FUTURE_INDEX_CHANGE", "Index Futures">>,
     <<"Call Options", "CALL_OI", "CALL_OI_CHANGE", "Combined Options">>,
     <<"Put Options", "PUT_OI", "PUT_OI_CHANGE", "Combined Options">> >>

\* the column of all rows, NaN dropped, as a list of absolute values
RECURSIVE AbsValuesAll(_, _)
AbsValuesAll(rows, col) ==
  IF rows = {} THEN << >>
  ELSE LET r == CHOOSE x \in rows : TRUE
           rest == AbsValuesAll(rows \ {r}, col)
       IN IF IsNaN(r[col]) THEN rest ELSE <<Abs(r[col])[1]>> \o rest

percentile_entry_C3(oi_sorted, change_sorted) ==
  [oi_p80 |-> get_threshold_C3(80, oi_sorted).val,
   oi_p40 |-> get_threshold_C3(40, oi_sorted).val,
   change_p80 |-> get_threshold_C3(80, change_sorted).val,
   change_p20 |-> get_threshold_C3(20, change_sorted).val]

\* the OI sample and the change sample of a percentile key, unsorted
samples_C3(combined_data, key) ==
  IF key = "Index Futures"
  THEN <<AbsValuesAll(combined_data, "FUTURE_INDEX"),
         AbsValuesAll(combined_data, "FUTURE_INDEX_CHANGE")>>
  ELSE <<AbsValuesAll(combined_data, "CALL_OI") \o AbsValuesAll(combined_data, "PUT_OI"),
         AbsValuesAll(combined_data, "CALL_OI_CHANGE")
           \o AbsValuesAll(combined_data, "PUT_OI_CHANGE")>>

\* the entry of a key, as a list of 0 or 1, given its two samples
combined_entry_C3(samples) ==
  IF Len(samples[1]) > 0 /\ Len(samples[2]) > 0
  THEN <<percentile_entry_C3(Sorted(samples[1]), Sorted(samples[2]))>>
  ELSE << >>

\* the dict built from the entries of the two keys
combined_dict_C3(futures_entry, options_entry) ==
  [key \in (IF futures_entry # << >> THEN {"Index Futures"} ELSE {})
             \cup (IF options_entry # << >> THEN {"Combined Options"} ELSE {}) |->
     IF key = "Index Futures" THEN futures_entry[1] ELSE options_entry[1]]

calculate_combined_percentiles(historical_data) ==
  combined_dict_C3(combined_entry_C3(samples_C3(historical_data, "Index Futures")),
                   combined_entry_C3(samples_C3(historical_data, "Combined Options")))

\* the body of the loop over the segments: the record of one segment
segment_result_C3(target_date, institution, row, seg, p_data) ==
  [date |-> target_date, institution |-> institution, segment |-> seg[1],
   net_oi |-> row[seg[2]], change |-> row[seg[3]],
   final_strength |->
     apply_truth_table_C3(
       get_strength_level_C3(row[seg[2]], p_data.oi_p80, p_data.oi_p40, FALSE),
       get_direction_C3(row[seg[2]], seg[1]),
       get_strength_level_C3(row[seg[3]], p_data.change_p80, p_data.change_p20, TRUE),
       get_direction_C3(row[seg[3]], seg[1]))]

\* results after the Net Options step of one institution
net_step_C3(target_date, institution, results1) ==
  IF /\ FirstResult(results1, "Call Options", institution) # << >>
     /\ FirstResult(results1, "Put Options", institution) # << >>
  THEN results1 \o
       <<[date |-> target_date, institution |-> institution,
          segment |-> "Net Options",
          net_oi |-> Sub(FirstResult(results1, "Call Options", institution)[1].net_oi,
                         FirstResult(results1, "Put Options", institution)[1].net_oi),
          change |-> Sub(FirstResult(results1, "Call Options", institution)[1].change,
                         FirstResult(results1, "Put Options", institution)[1].change),
          final_strength |->
            net_final_C3(FirstResult(results1, "Call Options", institution)[1].final_strength,
                         FirstResult(results1, "Put Options", institution)[1].final_strength)]>>
  ELSE results1

\* the records of the segments of one institution, given its row of the date
segment_results_C3(target_date, institution, row, combined_percentiles) ==
  [i \in 1..Len(SelectSeq(segments_C3, LAMBDA seg : seg[4] \in DOMAIN combined_percentiles)) |->
     segment_result_C3(target_date, institution, row,
       SelectSeq(segments_C3, LAMBDA seg : seg[4] \in DOMAIN combined_percentiles)[i],
       combined_percentiles[
         SelectSeq(segments_C3, LAMBDA seg : seg[4] \in DOMAIN combined_percentiles)[i][4]])]

\* the records one institution adds to results
institution_results_C3(target_date, institution, target_data, combined_percentiles, results) ==
  IF {r \in target_data : r.institution = institution} = {} THEN results
  ELSE net_step_C3(target_date, institution,
         results \o segment_results_C3(target_date, institution,
                      CHOOSE r \in target_data : r.institution = institution,
                      combined_percentiles))

RECURSIVE results_loop_C3(_, _, _, _, _)
results_loop_C3(i, target_date, target_data, combined_percentiles, results) ==
  IF i > Len(institution_order) THEN results
  ELSE results_loop_C3(i + 1, target_date, target_data, combined_percentiles,
         institution_results_C3(target_date, institution_order[i], target_data,
                                combined_percentiles, results))

calculate_strength_for_date_C3(frame, target_date, combined_percentiles) ==
  results_loop_C3(1, target_date, {r \in frame : r.date = target_date},
                  combined_percentiles, << >>)

(***************************************************************************)
(* Thresholds and labels of custom_percentile_method_2.py (per-date        *)
(* rolling window, Call and Put pooled).                                    *)
(***************************************************************************)
\* "if len(hist_inst_data) < 10"
MinRows == 10

\* (segment_name, oi_col, change_col, calculation_type)
segments_M2 ==
  << <<"Index Futures", "FUTURE_INDEX", "FUTURE_INDEX_CHANGE", "INDIVIDUAL">>,
     <<"Call Options", "CALL_OI", "CALL_OI_CHANGE", "COMBINED_OPTIONS">>,
     <<"Put Options", "PUT_OI", "PUT_OI_CHANGE", "COMBINED_OPTIONS">> >>

\* the number the format "{x:.0f}" prints for x hundredths: the nearest
\* integer, a half going to the even neighbour
Format0f(x) ==
  LET q == x \div PctDen
      r == x % PctDen
  IN IF 2 * r < PctDen THEN q
     ELSE IF 2 * r > PctDen THEN q + 1
     ELSE IF q % 2 = 0 THEN q ELSE q + 1

\* the four thresholds, or << >> for (None, None, None, None)
calculate_combined_options_percentiles(historical_data, institution) ==
  LET hist_inst_data == {r \in historical_data : r.institution = institution}
      oi_sorted == Sorted(AbsValues(hist_inst_data, "CALL_OI")
                          \o AbsValues(hist_inst_data, "PUT_OI"))
      change_sorted == Sorted(AbsValues(hist_inst_data, "CALL_OI_CHANGE")
                              \o AbsValues(hist_inst_data, "PUT_OI_CHANGE"))
  IN IF Cardinality(hist_inst_data) < MinRows THEN << >>
     ELSE IF Len(oi_sorted) = 0 \/ Len(change_sorted) = 0 THEN << >>
     ELSE <<[oi_p80 |-> get_threshold_M2(80, oi_sorted),
             oi_p40 |-> get_threshold_M2(40, oi_sorted),
             change_p80 |-> get_threshold_M2(80, change_sorted),
             change_p20 |-> get_threshold_M2(20, change_sorted)]>>

\* the thresholds of the INDIVIDUAL branch, each [err, val]
individual_percentiles_M2(hist_inst_data, oi_col, change_col) ==
  LET oi_sorted == Sorted(AbsValues(hist_inst_data, oi_col))
      change_sorted == Sorted(AbsValues(hist_inst_data, change_col))
  IN [oi_p80 |-> get_threshold_M2(80, oi_sorted),
      oi_p40 |-> get_threshold_M2(40, oi_sorted),
      change_p80 |-> get_threshold_M2(80, change_sorted),
      change_p20 |-> get_threshold_M2(20, change_sorted)]

\* lines 283-309 of the loop body: the labels and the record of a segment
\* whose thresholds are p
segment_record_M2(target_date, institution, segment_name, current_oi, current_change, p) ==
  LET oi_strength == get_strength_level_M2(current_oi, p.oi_p80.val, p.oi_p40.val, FALSE)
      change_strength ==
        get_strength_level_M2(current_change, p.change_p80.val, p.change_p20.val, TRUE)
      oi_direction == get_direction_M2(current_oi, segment_name)
      change_direction == get_direction_M2(current_change, segment_name)
  IN [date |-> target_date, institution |-> institution,
      segment |-> segment_name,
      net_oi |-> current_oi, change |-> current_change,
      oi_strength |-> Fmt(oi_strength, oi_direction),
      change_strength |-> Fmt(change_strength, change_direction),
      final_strength |->
        apply_truth_table_M2(oi_strength, oi_direction, change_strength, change_direction),
      oi_percentiles |-> <<Format0f(p.oi_p80.val), Format0f(p.oi_p40.val)>>,
      change_percentiles |-> <<Format0f(p.change_p80.val), Format0f(p.change_p20.val)>>]

\* [kind |-> "raise"] when a threshold could not be computed, else the record
segment_outcome_M2(target_date, institution, row, seg, p) ==
  IF \E f \in DOMAIN p : p[f].err # ""
  THEN [kind |-> "raise"]
  ELSE [kind |-> "record",
        rec |-> segment_record_M2(target_date, institution, seg[1],
                                  row[seg[2]], row[seg[3]], p)]

\* one iteration of the loop over segments_to_analyze:
\* [kind |-> "skip"], [kind |-> "raise"] or [kind |-> "record", rec |-> ...]
segment_result_M2(target_date, institution, row, seg, options_percentiles, hist_inst_data) ==
  IF seg[4] = "COMBINED_OPTIONS"
  THEN segment_outcome_M2(target_date, institution, row, seg, options_percentiles[1])
  ELSE IF Cardinality(hist_inst_data) < MinRows
  THEN [kind |-> "skip"]
  ELSE segment_outcome_M2(target_date, institution, row, seg,
                          individual_percentiles_M2(hist_inst_data, seg[2], seg[3]))

\* the segments the loop runs over, given the combined thresholds
segments_to_analyze_M2(options_percentiles) ==
  SelectSeq(segments_M2, LAMBDA seg : seg[4] = "INDIVIDUAL" \/ options_percentiles # << >>)

\* the outcomes of the segments, given row, the institution's row of the date
segment_outcomes_M2(target_date, institution, row, options_percentiles, hist_inst_data) ==
  [i \in 1..Len(segments_to_analyze_M2(options_percentiles)) |->
     segment_result_M2(target_date, institution, row,
                       segments_to_analyze_M2(options_percentiles)[i],
                       options_percentiles, hist_inst_data)]

\* the outcomes of the segments of one institution, in order
institution_outcomes_M2(target_date, institution, target_data, historical_data) ==
  IF {r \in target_data : r.institution = institution} = {} THEN << >>
  ELSE segment_outcomes_M2(target_date, institution,
         CHOOSE r \in target_data : r.institution = institution,
         calculate_combined_options_percentiles(historical_data, institution),
         {r \in historical_data : r.institution = institution})

\* the outcomes of all institutions, in the order of the loop
RECURSIVE outcomes_loop_M2(_, _, _, _)
outcomes_loop_M2(insts, target_date, target_data, historical_data) ==
  IF insts = << >> THEN << >>
  ELSE institution_outcomes_M2(target_date, Head(insts), target_data, historical_data)
       \o outcomes_loop_M2(Tail(insts), target_date, target_data, historical_data)

\* the return of the call, given the outcomes of the loop
return_M2(outcomes) ==
  IF \E i \in DOMAIN outcomes : outcomes[i].kind = "raise"
  THEN [raised |-> "IndexError", results |-> << >>]
  ELSE [raised |-> "",
        results |-> [i \in DOMAIN SelectSeq(outcomes, LAMBDA o : o.kind = "record") |->
                       SelectSeq(outcomes, LAMBDA o : o.kind = "record")[i].rec]]

\* the window taken from all dates of the frame, later ones included
lookback_dates_M2_from_all_dates(frame, target_date, lookback) ==
  Take(SortedDesc({r.date : r \in frame}), lookback)

\* the window of the call: the dates and the rows
lookback_dates_M2(frame, target_date, lookback) ==
  LET all_dates_before_target == SortedDesc({r.date : r \in {x \in frame : x.date <= target_date}})
  IN IF Len(all_dates_before_target) >= lookback
     THEN Take(all_dates_before_target, lookback)
     ELSE all_dates_before_target

\* the rows of the window
historical_data_M2(frame, window) == {r \in frame : r.date \in Range(window)}

\* calculate_strength_for_date: [raised, results]
calculate_strength_for_date_M2(frame, target_date, lookback) ==
  IF {r \in frame : r.date = target_date} = {} THEN [raised |-> "", results |-> << >>]
  ELSE return_M2(outcomes_loop_M2(institution_order, target_date,
                   {r \in frame : r.date = target_date},
                   historical_data_M2(frame, lookback_dates_M2(frame, target_date, lookback))))

(***************************************************************************)
(* State.                                                                   *)
(***************************************************************************)
VARIABLES
  op, arg, ret,             \* the pure function applied last, its inputs, its result
  df,                       \* self.df, the loaded frame
  date_to_nifty,            \* the index close of each date that has one
  lookback_days,            \* the lookback_days argument
  pc,                       \* the position in the running method
  all_dates,                \* sorted(self.df['date'].unique(), reverse=True)
  analysis_dates,           \* all_dates[1:lookback_days]
  historical_data,          \* the rows the thresholds are computed from
  institution_percentiles,  \* institution -> segment -> threshold set
  thr_i,                    \* the index of actual_threshold in thresholds
  date_i,                   \* how many of reversed(analysis_dates) are processed
  counts,                   \* institution -> correct / wrong / indecisive
  report,                   \* the rows printed so far, one list per threshold
  results,                  \* the list returned by calculate_strength_for_date
  ev,                       \* what the last step did with its date
  n_days,                   \* the n_days argument of calculate_last_n_days_strength
  last_n_dates,             \* all_dates[:n_days]
  all_results,              \* the list calculate_last_n_days_strength builds
  lookback_dates,           \* the window of the last per-date call
  raised,                   \* the exception the last call raised, "" if none
  first_results             \* the return value of the first of two runs, as a list of 0 or 1

pureVars == <<op, arg, ret>>
dataVars == <<df, date_to_nifty, lookback_days>>
runVars == <<pc, all_dates, analysis_dates, historical_data, institution_percentiles,
             thr_i, date_i, counts, report, results, ev>>
calcVars == <<n_days, last_n_dates, all_results, lookback_dates, raised, first_results>>
vars == <<pureVars, dataVars, runVars, calcVars>>

(***************************************************************************)
(* Bounds and inputs of the data.                                           *)
(***************************************************************************)
NDates == 3
BaseClose == 1000
CloseStep == 3
MaxMove == 4

\* the default of the lookback_days parameter
DefaultLookback == 60

\* the shapes of a net OI series over the dates 1..n
SeriesKinds == {"rise", "fall", "swing", "ebb", "none"}
SeriesValue(kind, d, n) ==
  CASE kind = "rise" -> Num(d)
    [] kind = "fall" -> Num(-d)
    [] kind = "swing" -> Num(IF d % 2 = 1 THEN d ELSE -d)
    [] kind = "ebb" -> Num(n - d)
    [] kind = "none" -> NaN

\* what one institution traded: the shape of each segment's series and the
\* dates on which it has no row ("never", "second" or "always")
Profiles ==
  { [fut |-> "rise", call |-> "rise", put |-> "fall", skip |-> "never"],
    [fut |-> "swing", call |-> "swing", put |-> "rise", skip |-> "never"],
    [fut |-> "none", call |-> "none", put |-> "swing", skip |-> "never"],
    [fut |-> "ebb", call |-> "fall", put |-> "ebb", skip |-> "never"],
    [fut |-> "rise", call |-> "ebb", put |-> "swing", skip |-> "second"],
    [fut |-> "none", call |-> "none", put |-> "none", skip |-> "always"] }

Skipped(profile, d) ==
  CASE profile.skip = "never" -> FALSE
    [] profile.skip = "second" -> d = 2
    [] profile.skip = "always" -> TRUE

\* DII is in the query's result and is filtered out by load_data
DIIProfile == [fut |-> "rise", call |-> "rise", put |-> "rise", skip |-> "never"]

\* the pivoted rows of the query, for a profile of each institution
RawRows(choice, n) ==
  LET pairs == {p \in (1..n) \X DOMAIN choice : ~Skipped(choice[p[2]], p[1])}
  IN {[date |-> p[1], institution |-> p[2],
       FUTURE_INDEX |-> SeriesValue(choice[p[2]].fut, p[1], n),
       CALL_OI |-> SeriesValue(choice[p[2]].call, p[1], n),
       PUT_OI |-> SeriesValue(choice[p[2]].put, p[1], n)] : p \in pairs}

\* the frames load_data can produce over n dates
Frames(n) ==
  {load_data(RawRows(choice @@ ("DII" :> DIIProfile), n)) :
     choice \in [{"FII", "PRO", "CLIENT"} -> Profiles]}

\* the close series: some dates have no close
CloseSeries(n) ==
  UNION {[D -> {BaseClose, BaseClose + CloseStep}] : D \in SUBSET (1..n)}

NoCounts == [inst \in {"CLIENT", "PRO", "FII"} |->
               [correct |-> 0, wrong |-> 0, indecisive |-> 0]]
NoEvent == [kind |-> "none", date |-> 0, pct |-> [num |-> 0, den |-> 1]]

IdlePure == op = "init" /\ arg = << >> /\ ret = << >>
IdleData == df = {} /\ date_to_nifty = << >> /\ lookback_days = 0
IdleRun ==
  /\ pc = "ready"
  /\ all_dates = << >>
  /\ analysis_dates = << >>
  /\ historical_data = {}
  /\ institution_percentiles = << >>
  /\ thr_i = 1
  /\ date_i = 0
  /\ counts = NoCounts
  /\ report = << >>
  /\ results = << >>
  /\ ev = NoEvent
IdleCalc ==
  /\ n_days = 0
  /\ last_n_dates = << >>
  /\ all_results = << >>
  /\ lookback_dates = << >>
  /\ raised = ""
  /\ first_results = << >>

(***************************************************************************)
(* SpecPure: the pure functions applied to inputs from bounded sets.        *)
(* op names the function applied last, arg its inputs, ret its result.      *)
(***************************************************************************)
Tiers == {"STRONG", "MEDIUM", "MILD"}
Dirs == {"BULLISH", "BEARISH"}
TiersH == {STRONG, MEDIUM, MILD}
DirsH == {BULLISH, BEARISH}
DecisiveLabels == {Fmt(t, d) : t \in Tiers, d \in Dirs}
FinalLabels == DecisiveLabels \cup {"INDECISIVE"}
SegmentNames == {"Index Futures", "Call Options", "Put Options"}
Cells == {Num(v) : v \in -MaxVal..MaxVal} \cup {NaN}
ThresholdVals == {k * (PctDen \div 2) : k \in 0..(2 * MaxVal + 1)}
IsSorted(s) == \A i \in 1..(Len(s) - 1) : s[i] <= s[i + 1]
SortedLists == UNION {{s \in [1..n -> 0..MaxVal] : IsSorted(s)} : n \in 0..MaxLen}
Percentiles == 0..PctDen

InitPure == IdlePure /\ IdleData /\ IdleRun /\ IdleCalc

Call_apply_truth_table ==
  /\ op = "init"
  /\ \E v \in {"R", "C3", "M2", "C1"}, os \in Tiers, od \in Dirs, cs \in Tiers, cd \in Dirs :
      /\ UNCHANGED <<dataVars, runVars, calcVars>>
      /\ op' = "apply_truth_table"
      /\ arg' = <<v, os, od, cs, cd>>
      /\ ret' = CASE v = "R" -> apply_truth_table_R(os, od, cs, cd)
                  [] v = "C3" -> apply_truth_table_C3(os, od, cs, cd)
                  [] v = "M2" -> apply_truth_table_M2(os, od, cs, cd)
                  [] v = "C1" -> apply_truth_table_C1(os, od, cs, cd)

Call_get_strength_view ==
  /\ op = "init"
  /\ \E os \in TiersH, od \in DirsH, cs \in TiersH, cd \in DirsH :
      /\ UNCHANGED <<dataVars, runVars, calcVars>>
      /\ op' = "get_strength_view_from_oi_and_oi_change_strength"
      /\ arg' = <<"H", os, od, cs, cd>>
      /\ ret' = get_strength_view_from_oi_and_oi_change_strength(od, os, cd, cs)

Call_net_final ==
  /\ op = "init"
  /\ \E v \in {"R", "C3"}, c \in FinalLabels, p \in FinalLabels :
      /\ UNCHANGED <<dataVars, runVars, calcVars>>
      /\ op' = "net_final"
      /\ arg' = <<v, c, p>>
      /\ ret' = IF v = "R" THEN net_final_R(c, p) ELSE net_final_C3(c, p)

Call_get_direction ==
  /\ op = "init"
  /\ \E v \in {"R", "C3", "M2"}, x \in Cells, s \in SegmentNames :
      /\ UNCHANGED <<dataVars, runVars, calcVars>>
      /\ op' = "get_direction"
      /\ arg' = <<v, x, s>>
      /\ ret' = CASE v = "R" -> get_direction_R(x, s)
                  [] v = "C3" -> get_direction_C3(x, s)
                  [] v = "M2" -> get_direction_M2(x, s)

Call_get_strength_level ==
  /\ op = "init"
  /\ \E v \in {"R", "C3", "M2"}, x \in Cells, p80 \in ThresholdVals,
       pl \in ThresholdVals, c \in BOOLEAN :
      /\ UNCHANGED <<dataVars, runVars, calcVars>>
      /\ op' = "get_strength_level"
      /\ arg' = <<v, x, p80, pl, c>>
      /\ ret' = CASE v = "R" -> get_strength_level_R(x, p80, pl, c)
                  [] v = "C3" -> get_strength_level_C3(x, p80, pl, c)
                  [] v = "M2" -> get_strength_level_M2(x, p80, pl, c)

Call_get_threshold ==
  /\ op = "init"
  /\ \E v \in {"R", "C3", "M2", "H"}, p \in Percentiles, s \in SortedLists :
      /\ UNCHANGED <<dataVars, runVars, calcVars>>
      /\ op' = "get_threshold"
      /\ arg' = <<v, p, s>>
      /\ ret' = CASE v = "R" -> get_threshold_R(p, s)
                  [] v = "C3" -> get_threshold_C3(p, s)
                  [] v = "M2" -> get_threshold_M2(p, s)
                  [] v = "H" -> get_threshold_H(p, s)

\* the expectation strings of the table
ExpStrings ==
  UNION {{expectations[k][c] : c \in DOMAIN expectations[k]} : k \in DOMAIN expectations}
PureCloses == {BaseClose + k : k \in -MaxMove..MaxMove}

Call_score ==
  /\ op = "init"
  /\ \E e \in ExpStrings, next_nifty \in PureCloses, current_nifty \in PureCloses,
       i \in DOMAIN thresholds :
      /\ UNCHANGED <<dataVars, runVars, calcVars>>
      /\ op' = "score"
      /\ arg' = <<e, next_nifty, current_nifty, thresholds[i]>>
      /\ ret' = score(e, next_change_pct(next_nifty, current_nifty), thresholds[i])

Call_exp_str_for ==
  /\ op = "init"
  /\ \E inst \in {"CLIENT", "PRO", "FII"}, c \in FinalLabels, p \in FinalLabels :
      /\ UNCHANGED <<dataVars, runVars, calcVars>>
      /\ op' = "exp_str_for"
      /\ arg' = <<inst, c, p>>
      /\ ret' = exp_str_for(inst, c, p)

\* the strings of one or two words: every label and strings that are no label
AnyLabels == Words \cup {Fmt(a, b) : a \in Words, b \in Words}

\* apply_truth_table on four arbitrary words
Lookup_truth_table ==
  /\ op = "init"
  /\ \E v \in {"R", "C3"}, os \in Words, od \in Words, cs \in Words, cd \in Words :
      /\ UNCHANGED <<dataVars, runVars, calcVars>>
      /\ op' = "truth_table.get"
      /\ arg' = <<v, os, od, cs, cd>>
      /\ ret' = IF v = "R" THEN apply_truth_table_R(os, od, cs, cd)
                ELSE apply_truth_table_C3(os, od, cs, cd)

\* the Net Options step on two arbitrary final_strength strings
Lookup_net_oi_mapping ==
  /\ op = "init"
  /\ \E v \in {"R", "C3"}, c \in AnyLabels, p \in AnyLabels :
      /\ UNCHANGED <<dataVars, runVars, calcVars>>
      /\ op' = "net_oi_mapping.get"
      /\ arg' = <<v, c, p>>
      /\ ret' = IF v = "R" THEN net_final_R(c, p) ELSE net_final_C3(c, p)

\* the number of dates of the frames the threshold functions are applied to
PoolDates == MinRows

\* the threshold function of a script applied to a frame: part_000 and
\* custom_percentile_method_2.py for one institution,
\* fii_strength_calculator_3.py for all together
PercentilesOf(v, frame, institution) ==
  CASE v = "R" -> calculate_respective_percentiles(frame, institution)
    [] v = "C3" -> calculate_combined_percentiles(frame)
    [] v = "M2" -> calculate_combined_options_percentiles(frame, institution)

Call_calculate_percentiles ==
  /\ op = "init"
  /\ \E v \in {"R", "C3", "M2"}, choice \in [{"FII", "PRO", "CLIENT"} -> Profiles],
        institution \in {"FII", "PRO", "CLIENT"} :
      /\ UNCHANGED <<dataVars, runVars, calcVars>>
      /\ op' = "calculate_percentiles"
      /\ arg' = <<v, choice, institution,
                  load_data(RawRows(choice @@ ("DII" :> DIIProfile), PoolDates))>>
      /\ ret' = PercentilesOf(v, arg'[4], institution)

\* percentile pairs (80th, lower) in whole units, lower <= 80th
WholeThresholds ==
  {pr \in ThresholdVals \X ThresholdVals :
     pr[2] <= pr[1] /\ pr[1] % PctDen = 0 /\ pr[2] % PctDen = 0}

Call_segment_strength_C1 ==
  /\ op = "init"
  /\ \E i \in 1..Len(segments_to_analyze_C1), current_oi \in Cells, current_change \in Cells,
       oi_p \in WholeThresholds, change_p \in WholeThresholds :
      /\ UNCHANGED <<dataVars, runVars, calcVars>>
      /\ op' = "segment_strength"
      /\ arg' = <<"C1", segments_to_analyze_C1[i][1], current_oi, current_change, oi_p, change_p>>
      /\ ret' = segment_strength_C1(segments_to_analyze_C1[i], current_oi, current_change,
                                    oi_p[1], oi_p[2], change_p[1], change_p[2])

NextPure ==
  \/ Call_segment_strength_C1
  \/ Call_calculate_percentiles
  \/ Lookup_truth_table
  \/ Lookup_net_oi_mapping
  \/ Call_score
  \/ Call_exp_str_for
  \/ Call_apply_truth_table
  \/ Call_get_strength_view
  \/ Call_net_final
  \/ Call_get_direction
  \/ Call_get_strength_level
  \/ Call_get_threshold

SpecPure == InitPure /\ [][NextPure]_vars

(***************************************************************************)
(* SpecBacktest: calculate_accuracy_summary of part_000, one step per      *)
(* scored date and one per printed threshold table.                         *)
(***************************************************************************)
InitBacktest ==
  /\ IdlePure
  /\ IdleRun
  /\ IdleCalc
  /\ df \in Frames(NDates)
  /\ date_to_nifty \in CloseSeries(NDates)
  /\ lookback_days \in {1, 2, DefaultLookback}

\* lines 508-518 and 573-587: the dates, the thresholds, the first counts
AccPrepare ==
  /\ pc = "ready"
  /\ LET dates == SortedDesc({r.date : r \in df})
         hist == {r \in df : r.date \in Range(Take(dates, lookback_days))}
     IN /\ all_dates' = dates
        /\ analysis_dates' = Slice1(dates, lookback_days)
        /\ historical_data' = hist
        /\ institution_percentiles' = institution_percentiles_R(hist)
  /\ thr_i' = 1
  /\ date_i' = 0
  /\ counts' = NoCounts
  /\ pc' = "scoring"
  /\ ev' = NoEvent
  /\ UNCHANGED <<pureVars, dataVars, calcVars, report, results>>

\* variant: a (date, institution) without an expectation is passed over
\* without a count
RECURSIVE count_loop_decided_only(_, _, _, _, _)
count_loop_decided_only(insts, res, pct, actual_threshold, cnt) ==
  IF insts = << >> THEN cnt
  ELSE
    LET institution == Head(insts)
        call_result == {i \in DOMAIN res : /\ res[i].institution = institution
                                           /\ res[i].segment = "Call Options"}
        put_result == {i \in DOMAIN res : /\ res[i].institution = institution
                                          /\ res[i].segment = "Put Options"}
    IN IF call_result = {} \/ put_result = {}
       THEN count_loop_decided_only(Tail(insts), res, pct, actual_threshold, cnt)
       ELSE
         LET call_strength == res[CHOOSE i \in call_result :
                                    \A j \in call_result : j <= i].final_strength
             put_strength == res[CHOOSE i \in put_result :
                                   \A j \in put_result : j <= i].final_strength
             exp_str == exp_str_for(institution, call_strength, put_strength)
             which == score(exp_str, pct, actual_threshold)
         IN count_loop_decided_only(Tail(insts), res, pct, actual_threshold,
                       IF which = "indecisive" THEN cnt
                       ELSE [cnt EXCEPT ![institution][which] = @ + 1])

\* lines 610-662: the counts after the institutions of one date
RECURSIVE count_loop(_, _, _, _, _)
count_loop(insts, res, pct, actual_threshold, cnt) ==
  IF insts = << >> THEN cnt
  ELSE
    LET institution == Head(insts)
        call_result == {i \in DOMAIN res : /\ res[i].institution = institution
                                           /\ res[i].segment = "Call Options"}
        put_result == {i \in DOMAIN res : /\ res[i].institution = institution
                                          /\ res[i].segment = "Put Options"}
    IN IF call_result = {} \/ put_result = {}
       THEN count_loop(Tail(insts), res, pct, actual_threshold, cnt)
       ELSE
         LET call_strength == res[CHOOSE i \in call_result :
                                    \A j \in call_result : j <= i].final_strength
             put_strength == res[CHOOSE i \in put_result :
                                   \A j \in put_result : j <= i].final_strength
             exp_str == exp_str_for(institution, call_strength, put_strength)
             which == score(exp_str, pct, actual_threshold)
         IN count_loop(Tail(insts), res, pct, actual_threshold,
                       [cnt EXCEPT ![institution][which] = @ + 1])

\* lines 591-662: one iteration of "for date in reversed(analysis_dates)"
AccScoreDate ==
  /\ pc = "scoring"
  /\ date_i < Len(analysis_dates)
  /\ date_i' = date_i + 1
  /\ LET date == analysis_dates[Len(analysis_dates) - date_i]
         sorted_trading_dates == [i \in DOMAIN all_dates |->
                                    all_dates[Len(all_dates) + 1 - i]]
         date_idx == (CHOOSE i \in DOMAIN sorted_trading_dates :
                        sorted_trading_dates[i] = date) - 1
     IN IF date_idx + 1 >= Len(sorted_trading_dates)
        THEN /\ ev' = [kind |-> "no next date", date |-> date,
                       pct |-> [num |-> 0, den |-> 1]]
             /\ UNCHANGED <<counts, results>>
        ELSE
          LET next_date == sorted_trading_dates[date_idx + 2]
          IN IF next_date \notin DOMAIN date_to_nifty \/ date \notin DOMAIN date_to_nifty
             THEN /\ ev' = [kind |-> "no close", date |-> date,
                            pct |-> [num |-> 0, den |-> 1]]
                  /\ UNCHANGED <<counts, results>>
             ELSE
               LET pct == next_change_pct(date_to_nifty[next_date], date_to_nifty[date])
                   res == calculate_strength_for_date_R(df, date, institution_percentiles)
               IN /\ results' = res
                  /\ counts' = count_loop(<<"CLIENT", "PRO", "FII">>, res, pct,
                                          thresholds[thr_i], counts)
                  /\ ev' = [kind |-> "scored", date |-> date, pct |-> pct]
  /\ UNCHANGED <<pureVars, dataVars, calcVars, pc, all_dates, analysis_dates,
                 historical_data, institution_percentiles, thr_i, report>>

\* variant: the division without the test of total_dec
percent_correct_unguarded(c, w) == [num |-> c * 100, den |-> c + w]

\* lines 664-669: "Correct %" of one institution as the fraction num / den,
\* 0 when nothing was decided
percent_correct(c, w) ==
  LET total_dec == c + w
  IN IF total_dec > 0 THEN [num |-> c * 100, den |-> total_dec]
     ELSE [num |-> 0, den |-> 1]

\* variant: the counts are carried over to the next threshold
AccReport_accumulating ==
  /\ pc = "scoring"
  /\ date_i = Len(analysis_dates)
  /\ report' = Append(report,
       [inst \in {"CLIENT", "PRO", "FII"} |->
          [c |-> counts[inst].correct, w |-> counts[inst].wrong,
           i |-> counts[inst].indecisive,
           pct |-> percent_correct(counts[inst].correct, counts[inst].wrong)]])
  /\ IF thr_i < Len(thresholds)
     THEN /\ thr_i' = thr_i + 1
          /\ date_i' = 0
          /\ pc' = "scoring"
          /\ UNCHANGED counts
     ELSE /\ pc' = "done"
          /\ UNCHANGED <<thr_i, date_i, counts>>
  /\ ev' = [kind |-> "report", date |-> 0, pct |-> [num |-> 0, den |-> 1]]
  /\ UNCHANGED <<pureVars, dataVars, calcVars, all_dates, analysis_dates,
                 historical_data, institution_percentiles, results>>

\* lines 664-669 and 584-587: the table of one threshold, then the next
\* threshold starts from zero counts
AccReport ==
  /\ pc = "scoring"
  /\ date_i = Len(analysis_dates)
  /\ report' = Append(report,
       [inst \in {"CLIENT", "PRO", "FII"} |->
          [c |-> counts[inst].correct, w |-> counts[inst].wrong,
           i |-> counts[inst].indecisive,
           pct |-> percent_correct(counts[inst].correct, counts[inst].wrong)]])
  /\ IF thr_i < Len(thresholds)
     THEN /\ thr_i' = thr_i + 1
          /\ date_i' = 0
          /\ counts' = NoCounts
          /\ pc' = "scoring"
     ELSE /\ pc' = "done"
          /\ UNCHANGED <<thr_i, date_i, counts>>
  /\ ev' = [kind |-> "report", date |-> 0, pct |-> [num |-> 0, den |-> 1]]
  /\ UNCHANGED <<pureVars, dataVars, calcVars, all_dates, analysis_dates,
                 historical_data, institution_percentiles, results>>

NextBacktest ==
  \/ AccPrepare
  \/ AccScoreDate
  \/ AccReport

SpecBacktest == InitBacktest /\ [][NextBacktest]_vars

(***************************************************************************)
(* SpecCalc: the strength of single dates.  calculate_last_n_days_strength *)
(* of part_000 computes the thresholds once and scores the last n_days     *)
(* dates; calculate_strength_for_date of custom_percentile_method_2.py     *)
(* computes its window and thresholds in every call.                        *)
(***************************************************************************)
NDatesCalc == 12

InitCalc ==
  /\ IdlePure
  /\ IdleRun
  /\ IdleCalc
  /\ df \in Frames(NDatesCalc)
  /\ date_to_nifty = << >>
  /\ lookback_days = 0

\* custom_percentile_method_2.py lines 167-317: a call for any date, also
\* one before the first date (0) and one after the last
RollingCall_M2 ==
  \E target_date \in 0..(NDatesCalc + 1), lookback \in {2, MinRows, DefaultLookback} :
    /\ pc \in {"ready", "latest"}
    /\ pc' = "rolled"
    /\ lookback_days' = lookback
    /\ lookback_dates' = lookback_dates_M2(df, target_date, lookback)
    /\ historical_data' = historical_data_M2(df, lookback_dates')
    /\ LET out == calculate_strength_for_date_M2(df, target_date, lookback)
       IN results' = out.results /\ raised' = out.raised
    /\ ev' = [kind |-> "rolling", date |-> target_date, pct |-> [num |-> 0, den |-> 1]]
    /\ UNCHANGED <<pureVars, df, date_to_nifty, all_dates, analysis_dates,
                   institution_percentiles, thr_i, date_i, counts, report,
                   n_days, last_n_dates, all_results, first_results>>

\* self.df['date'].max(): the maximum of an empty column is NaT, which no
\* date is below (0 here)
latest_date_M2(frame) ==
  LET all == SortedDesc({r.date : r \in frame})
  IN IF all = << >> THEN 0 ELSE all[1]

\* custom_percentile_method_2.py lines 319-329: the latest date of the frame
\* with the default lookback
LatestDay_M2 ==
  /\ pc \in {"ready", "rolled"}
  /\ pc' = "latest"
  /\ lookback_days' = DefaultLookback
  /\ lookback_dates' = lookback_dates_M2(df, latest_date_M2(df), DefaultLookback)
  /\ historical_data' = historical_data_M2(df, lookback_dates')
  /\ results' = calculate_strength_for_date_M2(df, latest_date_M2(df), DefaultLookback).results
  /\ raised' = calculate_strength_for_date_M2(df, latest_date_M2(df), DefaultLookback).raised
  /\ ev' = [kind |-> "latest", date |-> latest_date_M2(df), pct |-> [num |-> 0, den |-> 1]]
  /\ UNCHANGED <<pureVars, df, date_to_nifty, all_dates, analysis_dates,
                 institution_percentiles, thr_i, date_i, counts, report,
                 n_days, last_n_dates, all_results, first_results>>

\* part_000 lines 409-424 and 476: the fixed thresholds of the batch
BatchPrepare_R ==
  \E n \in {1, 3}, lookback \in {2, DefaultLookback} :
    /\ pc = "ready"
    /\ n_days' = n
    /\ lookback_days' = lookback
    /\ LET dates == SortedDesc({r.date : r \in df})
           last_60_dates == IF Len(dates) >= lookback THEN Take(dates, lookback) ELSE dates
           hist == {r \in df : r.date \in Range(last_60_dates)}
       IN /\ all_dates' = dates
          /\ historical_data' = hist
          /\ institution_percentiles' = institution_percentiles_R(hist)
          /\ last_n_dates' = Take(dates, n)
          /\ IF last_60_dates = << >>
             THEN raised' = "ValueError" /\ pc' = "done"
             ELSE raised' = "" /\ pc' = "batch"
    /\ date_i' = 0
    /\ all_results' = << >>
    /\ ev' = NoEvent
    /\ UNCHANGED <<pureVars, df, date_to_nifty, analysis_dates, thr_i, counts, report,
                   results, lookback_dates, first_results>>

\* variant: the thresholds taken again for each scored date, from the rows
\* at or before it
BatchScore_R_rolling ==
  /\ pc = "batch"
  /\ date_i < Len(last_n_dates)
  /\ date_i' = date_i + 1
  /\ historical_data' =
       {r \in historical_data : r.date <= last_n_dates[Len(last_n_dates) - date_i]}
  /\ institution_percentiles' = institution_percentiles_R(historical_data')
  /\ results' = calculate_strength_for_date_R(df, last_n_dates[Len(last_n_dates) - date_i],
                                              institution_percentiles')
  /\ all_results' = all_results \o results'
  /\ ev' = [kind |-> "batch", date |-> last_n_dates[Len(last_n_dates) - date_i],
            pct |-> [num |-> 0, den |-> 1]]
  /\ UNCHANGED <<pureVars, dataVars, pc, all_dates, analysis_dates, thr_i, counts, report,
                 n_days, last_n_dates, lookback_dates, raised, first_results>>

\* variant: scoring a date removes its rows from the frame
BatchScore_R_consuming ==
  /\ pc = "batch"
  /\ date_i < Len(last_n_dates)
  /\ date_i' = date_i + 1
  /\ results' = calculate_strength_for_date_R(df, last_n_dates[Len(last_n_dates) - date_i],
                                              institution_percentiles)
  /\ all_results' = all_results \o results'
  /\ df' = {r \in df : r.date # last_n_dates[Len(last_n_dates) - date_i]}
  /\ ev' = [kind |-> "batch", date |-> last_n_dates[Len(last_n_dates) - date_i],
            pct |-> [num |-> 0, den |-> 1]]
  /\ UNCHANGED <<pureVars, date_to_nifty, lookback_days, pc, all_dates, analysis_dates,
                 historical_data, institution_percentiles, thr_i, counts, report,
                 n_days, last_n_dates, lookback_dates, raised, first_results>>

\* part_000 lines 481-483: one iteration of "for date in reversed(last_n_dates)"
BatchScore_R ==
  /\ pc = "batch"
  /\ date_i < Len(last_n_dates)
  /\ date_i' = date_i + 1
  /\ LET date == last_n_dates[Len(last_n_dates) - date_i]
         res == calculate_strength_for_date_R(df, date, institution_percentiles)
     IN /\ results' = res
        /\ all_results' = all_results \o res
        /\ ev' = [kind |-> "batch", date |-> date, pct |-> [num |-> 0, den |-> 1]]
  /\ UNCHANGED <<pureVars, dataVars, pc, all_dates, analysis_dates, historical_data,
                 institution_percentiles, thr_i, counts, report,
                 n_days, last_n_dates, lookback_dates, raised, first_results>>

\* part_000 line 497 and lines 409-424, 476 again: the first call returns and
\* calculate_last_n_days_strength is called a second time on the same
\* object with the same arguments
BatchAgain_R ==
  /\ pc = "batch"
  /\ date_i = Len(last_n_dates)
  /\ first_results = << >>
  /\ first_results' = <<all_results>>
  /\ all_dates' = SortedDesc({r.date : r \in df})
  /\ historical_data' =
       {r \in df : r.date \in Range(IF Len(all_dates') >= lookback_days
                                   THEN Take(all_dates', lookback_days) ELSE all_dates')}
  /\ institution_percentiles' = institution_percentiles_R(historical_data')
  /\ last_n_dates' = Take(all_dates', n_days)
  /\ IF all_dates' = << >>
     THEN raised' = "ValueError" /\ pc' = "done"
     ELSE raised' = "" /\ pc' = "batch"
  /\ date_i' = 0
  /\ all_results' = << >>
  /\ ev' = NoEvent
  /\ UNCHANGED <<pureVars, dataVars, analysis_dates, thr_i, counts, report,
                 results, lookback_dates, n_days>>

\* fii_strength_calculator_3.py lines 374-377 and 447-449: the fixed
\* thresholds of the batch
BatchPrepare_C3 ==
  \E n \in {1, 3}, lookback \in {2, DefaultLookback} :
    /\ pc = "ready"
    /\ n_days' = n
    /\ lookback_days' = lookback
    /\ all_dates' = SortedDesc({r.date : r \in df})
    /\ historical_data' =
         {r \in df : r.date \in Range(IF Len(all_dates') >= lookback
                                     THEN Take(all_dates', lookback) ELSE all_dates')}
    /\ institution_percentiles' = calculate_combined_percentiles(historical_data')
    /\ last_n_dates' = Take(all_dates', n)
    /\ IF all_dates' = << >>
       THEN raised' = "ValueError" /\ pc' = "done"
       ELSE raised' = "" /\ pc' = "batch3"
    /\ date_i' = 0
    /\ all_results' = << >>
    /\ ev' = NoEvent
    /\ UNCHANGED <<pureVars, df, date_to_nifty, analysis_dates, thr_i, counts, report,
                   results, lookback_dates, first_results>>

\* fii_strength_calculator_3.py lines 451-457: one iteration of
\* "for date in reversed(last_n_dates)"
BatchScore_C3 ==
  /\ pc = "batch3"
  /\ date_i < Len(last_n_dates)
  /\ date_i' = date_i + 1
  /\ results' = calculate_strength_for_date_C3(df, last_n_dates[Len(last_n_dates) - date_i],
                                               institution_percentiles)
  /\ all_results' = all_results \o results'
  /\ ev' = [kind |-> "batch", date |-> last_n_dates[Len(last_n_dates) - date_i],
            pct |-> [num |-> 0, den |-> 1]]
  /\ UNCHANGED <<pureVars, dataVars, pc, all_dates, analysis_dates, historical_data,
                 institution_percentiles, thr_i, counts, report,
                 n_days, last_n_dates, lookback_dates, raised, first_results>>

\* fii_strength_calculator_3.py line 468
BatchReturn_C3 ==
  /\ pc = "batch3"
  /\ date_i = Len(last_n_dates)
  /\ pc' = "done"
  /\ UNCHANGED <<pureVars, dataVars, all_dates, analysis_dates, historical_data,
                 institution_percentiles, thr_i, date_i, counts, report, results, ev,
                 calcVars>>

\* part_000 line 497
BatchReturn_R ==
  /\ pc = "batch"
  /\ date_i = Len(last_n_dates)
  /\ pc' = "done"
  /\ UNCHANGED <<pureVars, dataVars, all_dates, analysis_dates, historical_data,
                 institution_percentiles, thr_i, date_i, counts, report, results, ev,
                 calcVars>>

NextCalc ==
  \/ RollingCall_M2
  \/ LatestDay_M2
  \/ BatchPrepare_R
  \/ BatchScore_R
  \/ BatchReturn_R
  \/ BatchAgain_R
  \/ BatchPrepare_C3
  \/ BatchScore_C3
  \/ BatchReturn_C3

SpecCalc == InitCalc /\ [][NextCalc]_vars

(***************************************************************************)
(* The compatibility matrix as the specification prints it: rows are the   *)
(* OI label, columns the change label, both in the order of MatrixOrder.   *)
(***************************************************************************)
MatrixOrder ==
  <<"STRONG BULLISH", "MEDIUM BULLISH", "MILD BULLISH",
    "STRONG BEARISH", "MEDIUM BEARISH", "MILD BEARISH">>

SpecMatrix ==
  LET SB == "STRONG BULLISH"
      MB == "MEDIUM BULLISH"
      MLB == "MILD BULLISH"
      Sb == "STRONG BEARISH"
      Mb == "MEDIUM BEARISH"
      Mlb == "MILD BEARISH"
      IND == "INDECISIVE"
  IN << <<SB, SB, SB, IND, IND, SB>>,
        <<SB, MB, MB, IND, IND, MB>>,
        <<MB, MLB, MLB, Mb, IND, IND>>,
        <<IND, IND, Sb, Sb, Sb, Sb>>,
        <<IND, IND, Mb, Sb, Mb, Mb>>,
        <<MB, IND, IND, Mb, Mlb, Mlb>> >>

MatrixIndex(label) == CHOOSE i \in 1..6 : MatrixOrder[i] = label

MatrixEntry(oi_label, change_label) ==
  SpecMatrix[MatrixIndex(oi_label)][MatrixIndex(change_label)]

\* a (strength, view) pair of fii_dii_helper_v2.py as a label of the matrix
LabelOfH(pair) ==
  IF pair = <<INDECISIVE, INDECISIVE>> THEN "INDECISIVE"
  ELSE Fmt(CASE pair[1] = STRONG -> "STRONG"
             [] pair[1] = MEDIUM -> "MEDIUM"
             [] pair[1] = MILD -> "MILD"
             [] OTHER -> "?",
           pair[2])

\* C1: for each of the 36 pairs of an OI label and a change label,
\* apply_truth_table of every script, and
\* get_strength_view_from_oi_and_oi_change_strength, return the entry of the
\* specification's matrix.
C1_TruthTableIsSpecMatrix ==
  /\ op = "apply_truth_table" =>
       ret = MatrixEntry(Fmt(arg[2], arg[3]), Fmt(arg[4], arg[5]))
  /\ op = "get_strength_view_from_oi_and_oi_change_strength" =>
       LabelOfH(ret) = MatrixEntry(LabelOfH(<<arg[2], arg[3]>>),
                                   LabelOfH(<<arg[4], arg[5]>>))

C1_Witness ==
  /\ op = "apply_truth_table"
  /\ arg = <<"R", "MILD", "BULLISH", "STRONG", "BEARISH">>
  /\ ret = "MEDIUM BEARISH"

\* C2: in fii_strength_calculator_3.py and in unnamed/part_000 the Net
\* Options label of the six anchor pairs is: (MEDIUM BULLISH, INDECISIVE) ->
\* MEDIUM BULLISH; (MEDIUM BULLISH, MEDIUM BEARISH) and (STRONG BULLISH,
\* STRONG BEARISH) -> tier INDECISIVE tagged VOLATILE; (MEDIUM BEARISH,
\* MEDIUM BULLISH) -> tier INDECISIVE tagged NEUTRAL; (MILD BULLISH, MILD
\* BEARISH) and (INDECISIVE, INDECISIVE) -> INDECISIVE.
C2_NetAnchorRows ==
  op = "net_final" =>
    LET c == arg[2]
        p == arg[3]
    IN /\ (c = "MEDIUM BULLISH" /\ p = "INDECISIVE") => ret = "MEDIUM BULLISH"
       /\ (c = "MEDIUM BULLISH" /\ p = "MEDIUM BEARISH") => ret = "INDECISIVE VOLATILE"
       /\ (c = "STRONG BULLISH" /\ p = "STRONG BEARISH") => ret = "INDECISIVE VOLATILE"
       /\ (c = "MEDIUM BEARISH" /\ p = "MEDIUM BULLISH") => ret = "INDECISIVE NEUTRAL"
       /\ (c = "MILD BULLISH" /\ p = "MILD BEARISH") => ret = "INDECISIVE"
       /\ (c = "INDECISIVE" /\ p = "INDECISIVE") => ret = "INDECISIVE"

\* the direction rule as the specification states it
SpecDirection(value, segment) ==
  IF segment = "Put Options"
  THEN (IF GtZero(value) THEN "BEARISH" ELSE "BULLISH")
  ELSE (IF GtZero(value) THEN "BULLISH" ELSE "BEARISH")

DirectionOf(v, value, segment) ==
  CASE v = "R" -> get_direction_R(value, segment)
    [] v = "C3" -> get_direction_C3(value, segment)
    [] v = "M2" -> get_direction_M2(value, segment)

\* C3: get_direction returns BULLISH for a value > 0 and BEARISH otherwise on
\* Index Futures and Call Options, and the reverse on Put Options; for the
\* same value the Put direction is the opposite of the Call direction, and 0
\* is BEARISH for futures and calls, BULLISH for puts.
C3_DirectionRule ==
  op = "get_direction" =>
    /\ ret = SpecDirection(arg[2], arg[3])
    /\ DirectionOf(arg[1], arg[2], "Put Options")
         # DirectionOf(arg[1], arg[2], "Call Options")
    /\ arg[2] = Num(0) =>
         ret = (IF arg[3] = "Put Options" THEN "BULLISH" ELSE "BEARISH")

C3_Witness ==
  /\ op = "get_direction"
  /\ arg[2] = Num(0)
  /\ arg[3] = "Put Options"
  /\ ret = "BULLISH"

StrengthLevelOf(v, value, p80, pl, c) ==
  CASE v = "R" -> get_strength_level_R(value, p80, pl, c)
    [] v = "C3" -> get_strength_level_C3(value, p80, pl, c)
    [] v = "M2" -> get_strength_level_M2(value, p80, pl, c)

\* C4: get_strength_level is STRONG when |value| >= p80, otherwise MEDIUM when
\* |value| >= pLower, otherwise MILD; the is_change flag does not change the
\* result, and a value equal to a threshold is in the higher tier.
C4_StrengthLevelRule ==
  op = "get_strength_level" =>
    LET value == arg[2]
        p80 == arg[3]
        pl == arg[4]
        mag == IF IsNaN(value) THEN -1 ELSE AbsInt(value[1]) * PctDen
    IN /\ ret = (IF mag >= p80 THEN "STRONG"
                 ELSE IF mag >= pl THEN "MEDIUM" ELSE "MILD")
       /\ StrengthLevelOf(arg[1], value, p80, pl, TRUE)
            = StrengthLevelOf(arg[1], value, p80, pl, FALSE)
       /\ mag = p80 => ret = "STRONG"
       /\ (mag = pl /\ mag < p80) => ret = "MEDIUM"

C4_Witness ==
  /\ op = "get_strength_level"
  /\ arg[1] = "M2"
  /\ arg[2] = Num(-1)
  /\ arg[3] = 2 * PctDen
  /\ arg[4] = PctDen
  /\ arg[5] = TRUE
  /\ ret = "MEDIUM"

\* C5: for p in 0..100 and an ascending sample of n >= 1 values, get_threshold
\* returns sample[0] when n = 1; otherwise, with position = (p/100)*(n-1),
\* integer part i and fractional part f, it returns sample[i] when f = 0 and
\* sample[i] + f*(sample[i+1] - sample[i]) when f > 0; it reads no index
\* above n-1, and p = 100 returns sample[n-1].
C5_ThresholdRule ==
  (op = "get_threshold" /\ Len(arg[3]) >= 1) =>
    LET p == arg[2]
        sample == arg[3]
        n == Len(sample)
        i == (p * (n - 1)) \div PctDen
        f == (p * (n - 1)) % PctDen
    IN /\ ret.err = ""
       /\ n = 1 => ret.val = PctDen * sample[1]
       /\ (n > 1 /\ f = 0) => ret.val = PctDen * sample[i + 1]
       /\ (n > 1 /\ f > 0) =>
            ret.val = PctDen * sample[i + 1] + f * (sample[i + 2] - sample[i + 1])
       /\ p = PctDen => ret.val = PctDen * sample[n]

C5_Witness ==
  /\ op = "get_threshold"
  /\ arg = <<"M2", 80, <<0, 1, 2>>>>
  /\ ret = [err |-> "", val |-> 160]

(***************************************************************************)
(* C6.  The label of a segment record.                                      *)
(***************************************************************************)
\* the tier of a value against a threshold set, thresholds in hundredths
SpecTier(value, p80, p_lower) ==
  IF IsNaN(value) THEN "MILD"
  ELSE IF AbsInt(value[1]) * PctDen >= p80 THEN "STRONG"
  ELSE IF AbsInt(value[1]) * PctDen >= p_lower THEN "MEDIUM"
  ELSE "MILD"

\* the matrix applied to the (tier, direction) of the OI and of the change
SpecFinal(oi, change, p, segment) ==
  MatrixEntry(Fmt(SpecTier(oi, p.oi_p80, p.oi_p40), SpecDirection(oi, segment)),
              Fmt(SpecTier(change, p.change_p80, p.change_p20),
                  SpecDirection(change, segment)))

\* the threshold set custom_percentile_method_2.py computes for a segment of
\* an institution from the rows of the window
ThresholdSet_M2(window_rows, institution, segment) ==
  LET rows == {r \in window_rows : r.institution = institution}
      oi == IF segment = "Index Futures" THEN AbsValues(rows, "FUTURE_INDEX")
            ELSE AbsValues(rows, "CALL_OI") \o AbsValues(rows, "PUT_OI")
      change == IF segment = "Index Futures" THEN AbsValues(rows, "FUTURE_INDEX_CHANGE")
                ELSE AbsValues(rows, "CALL_OI_CHANGE") \o AbsValues(rows, "PUT_OI_CHANGE")
  IN [oi_p80 |-> get_threshold_M2(80, Sorted(oi)).val,
      oi_p40 |-> get_threshold_M2(40, Sorted(oi)).val,
      change_p80 |-> get_threshold_M2(80, Sorted(change)).val,
      change_p20 |-> get_threshold_M2(20, Sorted(change)).val]

\* the example of the specification: OI 1200 against 1000 / 400, change 80
\* against 150 / 50
ExampleThresholds ==
  [oi_p80 |-> 1000 * PctDen, oi_p40 |-> 400 * PctDen,
   change_p80 |-> 150 * PctDen, change_p20 |-> 50 * PctDen]
ExampleRow ==
  [date |-> 1, institution |-> "FII",
   FUTURE_INDEX |-> Num(1200), FUTURE_INDEX_CHANGE |-> Num(80),
   CALL_OI |-> Num(1200), CALL_OI_CHANGE |-> Num(80),
   PUT_OI |-> Num(1200), PUT_OI_CHANGE |-> Num(80)]
ExampleThresholds_M2 ==
  [f \in DOMAIN ExampleThresholds |-> [err |-> "", val |-> ExampleThresholds[f]]]

\* C6: every Index Futures, Call Options or Put Options record emitted by
\* calculate_strength_for_date (part_000 in its batch, and
\* custom_percentile_method_2.py in each call) has as final_strength the
\* matrix entry of (tier and direction of the OI) and (tier and direction of
\* the change), the tiers taken against the thresholds of the record's own
\* institution and segment; OI 1200 against 1000 / 400 with change 80
\* against 150 / 50 on Index Futures or Call Options gives STRONG BULLISH.
C6_FinalStrength ==
  /\ pc = "batch" =>
       \A i \in DOMAIN results :
         results[i].segment # "Net Options" =>
           results[i].final_strength =
             SpecFinal(results[i].net_oi, results[i].change,
                       institution_percentiles[results[i].institution][results[i].segment],
                       results[i].segment)
  /\ pc \in {"rolled", "latest"} =>
       \A i \in DOMAIN results :
         results[i].final_strength =
           SpecFinal(results[i].net_oi, results[i].change,
                     ThresholdSet_M2(historical_data, results[i].institution,
                                     results[i].segment),
                     results[i].segment)
  /\ \A k \in {1, 2} :
       /\ segment_result_R(1, "FII", ExampleRow, segments_R[k],
                           ExampleThresholds).final_strength = "STRONG BULLISH"
       /\ segment_record_M2(1, "FII", segments_M2[k][1], ExampleRow[segments_M2[k][2]],
                            ExampleRow[segments_M2[k][3]],
                            ExampleThresholds_M2).final_strength = "STRONG BULLISH"

\* a batch date of part_000 with a Put Options record whose positive OI is
\* in the top tier, which makes it bearish, and a record of another segment
\* below the top tier
C6_Witness ==
  /\ pc = "batch"
  /\ \E i \in DOMAIN results :
       /\ results[i].segment = "Put Options"
       /\ GtZero(results[i].net_oi)
       /\ results[i].final_strength = "STRONG BEARISH"
  /\ \E i \in DOMAIN results :
       /\ results[i].segment \in {"Index Futures", "Call Options"}
       /\ results[i].final_strength \in
            {"MEDIUM BULLISH", "MEDIUM BEARISH", "MILD BULLISH", "MILD BEARISH"}

(***************************************************************************)
(* C7.  The thresholds of the backtest and the dates they are taken from.  *)
(***************************************************************************)
\* C7: whenever calculate_accuracy_summary has scored a date d, the rows the
\* thresholds were computed from (historical_data, from which
\* institution_percentiles is derived and which labels d) are all dated at
\* or before d.
C7_NoLookAhead ==
  ev.kind = "scored" => \A r \in historical_data : r.date <= ev.date

(***************************************************************************)
(* C8.  The window of a call in per-date rolling mode.                      *)
(***************************************************************************)
\* the distinct trading dates of the frame at or before d
DatesAtOrBefore(frame, d) == {r.date : r \in {x \in frame : x.date <= d}}

\* the n most recent of a set of dates
MostRecent(S, n) == {x \in S : Cardinality({y \in S : y > x}) < n}

Min(a, b) == IF a <= b THEN a ELSE b

\* C8: after a call of calculate_strength_for_date of
\* custom_percentile_method_2.py for the date d with lookback N, the window
\* is the min(N, k) most recent distinct trading dates <= d, k the number of
\* such dates; it has d when d has data and no date after d; the rows the
\* thresholds are taken from are the rows of this window, and the thresholds
\* every record reports are those of this window.
C8_RollingWindow ==
  pc \in {"rolled", "latest"} =>
    LET d == ev.date
        k == Cardinality(DatesAtOrBefore(df, d))
        W == Range(lookback_dates)
    IN /\ Cardinality(W) = Len(lookback_dates)
       /\ Cardinality(W) = Min(lookback_days, k)
       /\ W = MostRecent(DatesAtOrBefore(df, d), lookback_days)
       /\ W \subseteq DatesAtOrBefore(df, d)
       /\ \A w \in W : w <= d
       /\ (\E r \in df : r.date = d) => d \in W
       /\ historical_data = {r \in df : r.date \in MostRecent(DatesAtOrBefore(df, d),
                                                              lookback_days)}
       /\ \A i \in DOMAIN results :
            LET t == ThresholdSet_M2(
                       {r \in df : r.date \in MostRecent(DatesAtOrBefore(df, d),
                                                         lookback_days)},
                       results[i].institution, results[i].segment)
            IN /\ results[i].oi_percentiles = <<Format0f(t.oi_p80), Format0f(t.oi_p40)>>
               /\ results[i].change_percentiles =
                    <<Format0f(t.change_p80), Format0f(t.change_p20)>>

\* a call for a date with more than N dates at or before it and dates after
\* it, which emits records
C8_Witness ==
  /\ pc = "rolled"
  /\ Cardinality(DatesAtOrBefore(df, ev.date)) > lookback_days
  /\ \E r \in df : r.date > ev.date
  /\ \E r \in df : r.date = ev.date
  /\ Len(lookback_dates) = lookback_days
  /\ results # << >>

(***************************************************************************)
(* C9.  The scoring rule of the backtest.                                   *)
(***************************************************************************)
\* nextReturnPct = 100 * (next - current) / current compared with a bound of
\* t tenths of a percent, current > 0: "ReturnGe(n, c, t)" is
\* nextReturnPct >= t / 10
ReturnGe(next_nifty, current_nifty, t) ==
  (next_nifty - current_nifty) * 100 * ThrDen >= t * current_nifty
ReturnLe(next_nifty, current_nifty, t) ==
  (next_nifty - current_nifty) * 100 * ThrDen <= t * current_nifty

\* the rule of the specification for the expectation string e
SpecCorrect(e, next_nifty, current_nifty, t) ==
  CASE e = "UP" -> next_nifty > current_nifty
    [] e = "DOWN" -> next_nifty < current_nifty
    [] e \in {"FLAT", "NEUTRAL"} ->
         ReturnLe(next_nifty, current_nifty, t) /\ ReturnGe(next_nifty, current_nifty, -t)
    [] e = "FLAT OR UP" -> ReturnGe(next_nifty, current_nifty, -t)
    [] e = "FLAT OR DOWN" -> ReturnLe(next_nifty, current_nifty, t)
    [] e = "VOLATILE" ->
         ~(ReturnLe(next_nifty, current_nifty, t) /\ ReturnGe(next_nifty, current_nifty, -t))
    [] OTHER -> FALSE

\* C9: for a non-empty expectation string and a movement threshold t, the
\* date is scored correct exactly when the rule of the string holds for the
\* next return (UP: > 0, DOWN: < 0, FLAT or NEUTRAL: |r| <= t, FLAT OR UP:
\* r >= -t, FLAT OR DOWN: r <= t, VOLATILE: |r| > t) and wrong otherwise; a
\* return of exactly 0 is wrong for UP and for DOWN.
C9_ScoringRule ==
  (op = "score" /\ arg[1] # "") =>
     /\ ret = IF SpecCorrect(arg[1], arg[2], arg[3], arg[4]) THEN "correct" ELSE "wrong"
     /\ (arg[2] = arg[3] /\ arg[1] \in {"UP", "DOWN"}) => ret = "wrong"

\* a return of exactly 0 scored against UP: wrong
C9_Witness ==
  /\ op = "score"
  /\ arg = <<"UP", BaseClose, BaseClose, 2>>
  /\ ret = "wrong"

(***************************************************************************)
(* C10.  The column of the expectation table and the indecisive counter.   *)
(***************************************************************************)
BothLabels(res, inst) ==
  /\ \E i \in DOMAIN res : res[i].institution = inst /\ res[i].segment = "Call Options"
  /\ \E i \in DOMAIN res : res[i].institution = inst /\ res[i].segment = "Put Options"

LabelOf(res, inst, seg) ==
  res[CHOOSE i \in DOMAIN res : res[i].institution = inst /\ res[i].segment = seg].final_strength

\* the entry of the table for the institution's (Call label, Put label)
ExpectationEntry(res, inst) ==
  expectations[<<LabelOf(res, inst, "Call Options"), LabelOf(res, inst, "Put Options")>>]

\* the string of the column the specification names for the institution
ExpectationRead(res, inst) ==
  ExpectationEntry(res, inst)[IF inst = "CLIENT" THEN "CLIENT" ELSE "OTHER"]

\* C10: in a step that scores a date, every institution with both a Call and
\* a Put label is counted by the string of the CLIENT column when it is
\* CLIENT and of the OTHER column when it is PRO or FII; an empty string adds
\* 1 to indecisive and leaves correct and wrong as they were; an institution
\* without both labels is not counted.  The entry for (MEDIUM BEARISH,
\* INDECISIVE) has FLAT OR UP in the CLIENT column.
C10_ExpectationColumn ==
  [][ /\ expectations[<<"MEDIUM BEARISH", "INDECISIVE">>]["CLIENT"] = "FLAT OR UP"
      /\ (pc = "scoring" /\ date_i' = date_i + 1 /\ ev'.kind = "scored") =>
           \A inst \in {"CLIENT", "PRO", "FII"} :
             IF BothLabels(results', inst)
             THEN IF ExpectationRead(results', inst) = ""
                  THEN /\ counts'[inst].indecisive = counts[inst].indecisive + 1
                       /\ counts'[inst].correct = counts[inst].correct
                       /\ counts'[inst].wrong = counts[inst].wrong
                  ELSE counts'[inst] =
                         [counts[inst] EXCEPT
                            ![score(ExpectationRead(results', inst), ev'.pct,
                                    thresholds[thr_i])] = @ + 1]
             ELSE counts'[inst] = counts[inst] ]_vars

\* a scored date where CLIENT has both labels and an empty expectation, and
\* PRO or FII is counted by an OTHER string that differs from the CLIENT one
C10_Witness ==
  /\ ev.kind = "scored"
  /\ BothLabels(results, "CLIENT")
  /\ ExpectationRead(results, "CLIENT") = ""
  /\ counts["CLIENT"].indecisive >= 1
  /\ \E inst \in {"PRO", "FII"} :
       /\ BothLabels(results, inst)
       /\ ExpectationRead(results, inst) # ""
       /\ ExpectationRead(results, inst) # ExpectationEntry(results, inst)["CLIENT"]
       /\ counts[inst].correct + counts[inst].wrong >= 1

(***************************************************************************)
(* C11.  The dates the backtest scores and the forward return.              *)
(***************************************************************************)
\* the trading dates of the positioning data
TradingDates == {r.date : r \in df}

\* the trading date immediately following d
FollowingDate(d) ==
  CHOOSE x \in TradingDates : x > d /\ \A y \in TradingDates : y > d => x <= y

\* C11: a step of the loop of calculate_accuracy_summary never handles the
\* most recent trading date; when it scores the date d, the return is
\* (close(d') - close(d)) / close(d) * 100 with d' the trading date that
\* follows d in the positioning data, and both closes exist; when the close
\* of d or of d' is missing, no counter changes.
C11_NextReturn ==
  [][ (pc = "scoring" /\ date_i' = date_i + 1) =>
        LET d == ev'.date
        IN /\ d \in TradingDates
           /\ \E x \in TradingDates : x > d
           /\ ev'.kind \in {"scored", "no close"}
           /\ ev'.kind = "scored" <=>
                (d \in DOMAIN date_to_nifty /\ FollowingDate(d) \in DOMAIN date_to_nifty)
           /\ ev'.kind = "scored" =>
                /\ ev'.pct.num = (date_to_nifty[FollowingDate(d)] - date_to_nifty[d]) * 100
                /\ ev'.pct.den = date_to_nifty[d]
           /\ ev'.kind = "no close" => counts' = counts ]_vars

\* a date scored with a positive return while the close of another trading
\* date is missing and some institution has been counted
C11_Witness ==
  /\ ev.kind = "scored"
  /\ ev.pct.num > 0
  /\ \E d \in TradingDates : d \notin DOMAIN date_to_nifty
  /\ counts # NoCounts


(***************************************************************************)
(* C12: for an institution and date, calculate_strength_for_date (part_000 *)
(* and fii_strength_calculator_3.py) emits a Net Options record exactly    *)
(* when it emitted both a Call Options and a Put Options record for that   *)
(* institution and date; a missing one skips the step without an error;    *)
(* the Net record carries net_oi = call OI - put OI and change = call      *)
(* change - put change whatever its label, INDECISIVE included.            *)
(***************************************************************************)
RecordsOf(res, inst, seg) ==
  {i \in DOMAIN res : res[i].institution = inst /\ res[i].segment = seg}

\* pandas subtraction of two cells: NaN when either is NaN
Difference(a, b) == IF a = NaN \/ b = NaN THEN NaN ELSE <<a[1] - b[1]>>

C12_NetOptions ==
  ev.kind = "batch" =>
    /\ raised = ""
    /\ \A inst \in {"FII", "PRO", "CLIENT"} :
         /\ Cardinality(RecordsOf(results, inst, "Net Options")) <= 1
         /\ RecordsOf(results, inst, "Net Options") # {}
              <=> /\ RecordsOf(results, inst, "Call Options") # {}
                  /\ RecordsOf(results, inst, "Put Options") # {}
         /\ \A n \in RecordsOf(results, inst, "Net Options") :
              /\ results[n].date = ev.date
              /\ \E c \in RecordsOf(results, inst, "Call Options"),
                    p \in RecordsOf(results, inst, "Put Options") :
                   /\ results[c].date = ev.date /\ results[p].date = ev.date
                   /\ results[n].net_oi = Difference(results[c].net_oi, results[p].net_oi)
                   /\ results[n].change = Difference(results[c].change, results[p].change)

\* one institution has a Put record and no Call record, hence no Net record;
\* another has a Net record labelled INDECISIVE with its two differences
C12_Witness ==
  /\ ev.kind = "batch"
  /\ \E inst \in {"FII", "PRO", "CLIENT"} :
       /\ RecordsOf(results, inst, "Put Options") # {}
       /\ RecordsOf(results, inst, "Call Options") = {}
       /\ RecordsOf(results, inst, "Net Options") = {}
  /\ \E inst \in {"FII", "PRO", "CLIENT"} :
       \E n \in RecordsOf(results, inst, "Net Options") :
         /\ results[n].final_strength = "INDECISIVE"
         /\ results[n].net_oi # NaN
         /\ results[n].net_oi # <<0>>
         /\ results[n].change # <<0>>

(***************************************************************************)
(* C13: for each of the 49 (Call label, Put label) pairs over the six      *)
(* decisive labels and INDECISIVE, the Net Options label of part_000 is a  *)
(* decisive label, tier INDECISIVE tagged VOLATILE, tier INDECISIVE tagged *)
(* NEUTRAL, or plain INDECISIVE; VOLATILE and NEUTRAL appear with no tier  *)
(* other than INDECISIVE.                                                  *)
(***************************************************************************)
NetLabels ==
  DecisiveLabels \cup {Fmt("INDECISIVE", "VOLATILE"), Fmt("INDECISIVE", "NEUTRAL"),
                       "INDECISIVE"}

C13_NetLabelSet ==
  (op = "net_final" /\ arg[1] = "R") =>
    /\ ret \in NetLabels
    /\ \A tier \in Tiers \cup {"VOLATILE", "NEUTRAL"}, tag \in {"VOLATILE", "NEUTRAL"} :
         ret # Fmt(tier, tag)

(***************************************************************************)
(* C14: apply_truth_table and the Net Options mapping lookup of part_000   *)
(* give INDECISIVE for every input pair that is not a key of the table,    *)
(* labels outside the valid label set included, and raise nothing.         *)
(***************************************************************************)
\* parse_strength as the source states it: the two words of a two-word
\* string, (INDECISIVE, INDECISIVE) for any other string
TwoWords(label) ==
  IF label \in Words THEN <<"INDECISIVE", "INDECISIVE">>
  ELSE CHOOSE w \in Words \X Words : label = Fmt(w[1], w[2])

C14_DefaultIndecisive ==
  /\ (op = "truth_table.get" /\ arg[1] = "R") =>
       /\ ret \in FinalLabels
       /\ <<Fmt(arg[2], arg[3]), Fmt(arg[4], arg[5])>> \notin DOMAIN truth_table_R
            => ret = "INDECISIVE"
  /\ (op = "net_oi_mapping.get" /\ arg[1] = "R") =>
       /\ ret \in FinalLabels \cup {Fmt(a, b) : a \in Words, b \in Words}
       /\ <<TwoWords(arg[2]), TwoWords(arg[3])>> \notin DOMAIN net_oi_mapping_R
            => ret = "INDECISIVE"

\* a Call label outside the label set, with a Put label that would decide
\* the Net label if the Call label were INDECISIVE
C14_Witness ==
  /\ op = "net_oi_mapping.get"
  /\ arg = <<"R", Fmt("VOLATILE", "VOLATILE"), Fmt("STRONG", "BULLISH")>>
  /\ ret = "INDECISIVE"

(***************************************************************************)
(* C15: get_threshold (part_000 and fii_dii_helper_v2.py) called with a    *)
(* sample of length zero fails with an error; it returns no number.        *)
(***************************************************************************)
C15_EmptySampleFails ==
  (op = "get_threshold" /\ arg[1] \in {"R", "H"} /\ arg[3] = << >>) => ret.err # ""

(***************************************************************************)
(* C16: in every calculator (part_000, fii_strength_calculator_3.py,       *)
(* custom_percentile_method_2.py), when the lookback window has no         *)
(* non-missing OI values or no non-missing change values for a segment of  *)
(* an institution, calculate_strength_for_date emits no record for that    *)
(* institution, segment and date and raises no exception, and the other    *)
(* segments and institutions are still processed.  The window of a segment *)
(* is the sample its thresholds are taken from: the institution's own      *)
(* column, or the pooled one where the script pools.                       *)
(***************************************************************************)
\* the rows of the window that have a value in the column
Present(rows, col) == {r \in rows : r[col] # NaN}

RowsOf(rows, inst) == {r \in rows : r.institution = inst}

\* the segment's own window of the institution has both samples
OwnWindow(inst, seg) ==
  /\ Present(RowsOf(historical_data, inst), seg[2]) # {}
  /\ Present(RowsOf(historical_data, inst), seg[3]) # {}

\* the window pooled over Call and Put has both samples
OptionsWindow(rows) ==
  /\ Present(rows, "CALL_OI") \cup Present(rows, "PUT_OI") # {}
  /\ Present(rows, "CALL_OI_CHANGE") \cup Present(rows, "PUT_OI_CHANGE") # {}

C16_Respective ==
  (ev.kind = "batch" /\ pc = "batch") =>
    /\ raised = ""
    /\ \A inst \in Range(institution_order), i \in DOMAIN segments_R :
         IF OwnWindow(inst, segments_R[i]) /\ RowsOf(df, inst) \cap {r \in df : r.date = ev.date} # {}
         THEN Cardinality(RecordsOf(results, inst, segments_R[i][1])) = 1
         ELSE RecordsOf(results, inst, segments_R[i][1]) = {}

C16_Combined ==
  (ev.kind = "batch" /\ pc = "batch3") =>
    /\ raised = ""
    /\ \A inst \in Range(institution_order), i \in DOMAIN segments_C3 :
         IF /\ (IF i = 1
                THEN /\ Present(historical_data, "FUTURE_INDEX") # {}
                     /\ Present(historical_data, "FUTURE_INDEX_CHANGE") # {}
                ELSE OptionsWindow(historical_data))
            /\ RowsOf(df, inst) \cap {r \in df : r.date = ev.date} # {}
         THEN Cardinality(RecordsOf(results, inst, segments_C3[i][1])) = 1
         ELSE RecordsOf(results, inst, segments_C3[i][1]) = {}

C16_Rolling ==
  ev.kind = "rolling" =>
    /\ raised = ""
    /\ \A inst \in Range(institution_order) :
         /\ ~OwnWindow(inst, segments_M2[1])
              => RecordsOf(results, inst, "Index Futures") = {}
         /\ ~OptionsWindow(RowsOf(historical_data, inst))
              => /\ RecordsOf(results, inst, "Call Options") = {}
                 /\ RecordsOf(results, inst, "Put Options") = {}

C16_EmptyWindowSkipped == C16_Respective /\ C16_Combined /\ C16_Rolling

(***************************************************************************)
(* C17: every threshold set produced from a non-empty window               *)
(* (calculate_respective_percentiles of part_000,                          *)
(* calculate_combined_percentiles of fii_strength_calculator_3.py) has     *)
(* 0 <= oi_p40 <= oi_p80 and 0 <= change_p20 <= change_p80.                *)
(***************************************************************************)
OrderedThresholds(t) ==
  /\ 0 <= t.oi_p40 /\ t.oi_p40 <= t.oi_p80
  /\ 0 <= t.change_p20 /\ t.change_p20 <= t.change_p80

C17_ThresholdOrder ==
  /\ pc = "batch" =>
       \A inst \in DOMAIN institution_percentiles :
         \A seg \in DOMAIN institution_percentiles[inst] :
           OrderedThresholds(institution_percentiles[inst][seg])
  /\ pc = "batch3" =>
       \A key \in DOMAIN institution_percentiles :
         OrderedThresholds(institution_percentiles[key])

\* a set of part_000 whose four thresholds differ
C17_Witness ==
  /\ pc = "batch"
  /\ \E inst \in DOMAIN institution_percentiles :
       \E seg \in DOMAIN institution_percentiles[inst] :
         /\ 0 < institution_percentiles[inst][seg].oi_p40
         /\ institution_percentiles[inst][seg].oi_p40
              < institution_percentiles[inst][seg].oi_p80
         /\ 0 < institution_percentiles[inst][seg].change_p20
         /\ institution_percentiles[inst][seg].change_p20
              < institution_percentiles[inst][seg].change_p80

(***************************************************************************)
(* C18: for a fixed ascending sample of n >= 1 values and p1 <= p2 in      *)
(* 0..100, get_threshold(p1, sample) <= get_threshold(p2, sample), in      *)
(* part_000 and in fii_dii_helper_v2.py.                                   *)
(***************************************************************************)
ThresholdOf(v, percentile, sorted_list) ==
  IF v = "R" THEN get_threshold_R(percentile, sorted_list)
  ELSE get_threshold_H(percentile, sorted_list)

C18_ThresholdMonotone ==
  (op = "get_threshold" /\ arg[1] \in {"R", "H"} /\ Len(arg[3]) >= 1) =>
    /\ ret.err = ""
    /\ \A p1 \in 0..arg[2] :
         /\ ThresholdOf(arg[1], p1, arg[3]).err = ""
         /\ ThresholdOf(arg[1], p1, arg[3]).val <= ret.val

\* an interpolated threshold above that of a smaller percentile
C18_Witness ==
  /\ op = "get_threshold"
  /\ arg[1] = "R"
  /\ Len(arg[3]) >= 3
  /\ ret.val % PctDen # 0
  /\ \E p1 \in 1..arg[2] :
       /\ ThresholdOf("R", 0, arg[3]).val < ThresholdOf("R", p1, arg[3]).val
       /\ ThresholdOf("R", p1, arg[3]).val < ret.val

(***************************************************************************)
(* C19: for fixed thresholds p80 and pLower, in either order,              *)
(* get_strength_level of part_000 is monotonic in |value|: |v1| <= |v2|    *)
(* implies tier(v1) <= tier(v2) in the order MILD < MEDIUM < STRONG.       *)
(***************************************************************************)
TierRank(tier) ==
  CASE tier = "MILD" -> 1
    [] tier = "MEDIUM" -> 2
    [] tier = "STRONG" -> 3

C19_TierMonotone ==
  (op = "get_strength_level" /\ arg[1] = "R" /\ arg[2] # NaN) =>
    \A v2 \in Cells \ {NaN} :
      Abs(arg[2])[1] <= Abs(v2)[1]
        => TierRank(ret) <= TierRank(get_strength_level_R(v2, arg[3], arg[4], arg[5]))

\* the lower threshold above the 80th percentile, and a larger value in a
\* higher tier
C19_Witness ==
  /\ op = "get_strength_level"
  /\ arg[1] = "R"
  /\ arg[2] # NaN
  /\ arg[3] < arg[4]
  /\ ret = "MILD"
  /\ \E v2 \in Cells \ {NaN} :
       /\ Abs(arg[2])[1] < Abs(v2)[1]
       /\ get_strength_level_R(v2, arg[3], arg[4], arg[5]) = "STRONG"

(***************************************************************************)
(* C20: per institution and threshold the backtest reports                 *)
(* correct / (correct + wrong) * 100, and 0, without failing, when         *)
(* correct + wrong = 0; the reported value is between 0 and 100.           *)
(***************************************************************************)
C20_PercentCorrect ==
  \A k \in DOMAIN report :
    \A inst \in {"CLIENT", "PRO", "FII"} :
      /\ report[k][inst].pct.den > 0
      /\ 0 <= report[k][inst].pct.num
      /\ report[k][inst].pct.num <= 100 * report[k][inst].pct.den
      /\ IF report[k][inst].c + report[k][inst].w = 0
         THEN report[k][inst].pct.num = 0
         ELSE report[k][inst].pct.num * (report[k][inst].c + report[k][inst].w)
                = report[k][inst].c * 100 * report[k][inst].pct.den

\* one table with an institution that decided nothing and one that was
\* right once and wrong once
C20_Witness ==
  \E k \in DOMAIN report :
    /\ \E inst \in {"CLIENT", "PRO", "FII"} :
         report[k][inst].c + report[k][inst].w = 0
    /\ \E inst \in {"CLIENT", "PRO", "FII"} :
         report[k][inst].c > 0 /\ report[k][inst].w > 0

ProfileField(seg) ==
  CASE seg = "Index Futures" -> "fut"
    [] seg = "Call Options" -> "call"
    [] seg = "Put Options" -> "put"

\* the data with one series of one institution replaced, or with the rows
\* of another institution taken away or put back: <<i, p>> gives
\* institution i the profile p
Alternatives(choice, institution) ==
  {<<x[1], [choice[x[1]] EXCEPT ![x[2]] = x[3]]>> :
     x \in {"FII", "PRO", "CLIENT"} \X {"fut", "call", "put"} \X SeriesKinds}
  \cup {<<x[1], [choice[x[1]] EXCEPT !.skip = x[2]]>> :
          x \in ({"FII", "PRO", "CLIENT"} \ {institution}) \X {"never", "second", "always"}}

\* the own series of (institution, seg) is the same in the alternative
KeepsOwnSeries(choice, institution, seg, alt) ==
  alt[1] = institution => alt[2][ProfileField(seg)] = choice[institution][ProfileField(seg)]

\* the frame load_data gives for the alternative: the changes are taken
\* within an institution, so the rows of the others are those of frame
FrameOf(frame, alt) ==
  {r \in frame : r.institution # alt[1]}
    \cup load_data(RawRows(alt[1] :> alt[2], PoolDates))

\* the threshold set a script uses for the segment, as a list of 0 or 1
ThresholdsFor(v, percentiles, seg) ==
  CASE v = "R" -> IF seg \in DOMAIN percentiles THEN <<percentiles[seg]>> ELSE << >>
    [] v = "C3" ->
         IF (IF seg = "Index Futures" THEN seg ELSE "Combined Options") \in DOMAIN percentiles
         THEN <<percentiles[IF seg = "Index Futures" THEN seg ELSE "Combined Options"]>>
         ELSE << >>
    [] v = "M2" -> IF seg = "Index Futures" THEN << >> ELSE percentiles

SamePool(v, choice, institution, seg, alt) ==
  CASE v = "R" -> KeepsOwnSeries(choice, institution, seg, alt)
    [] v = "M2" -> alt[1] = institution =>
                     /\ alt[2].call = choice[institution].call
                     /\ alt[2].put = choice[institution].put
    [] v = "C3" ->
         /\ alt[2].skip = choice[alt[1]].skip
         /\ IF seg = "Index Futures" THEN alt[2].fut = choice[alt[1]].fut
            ELSE /\ alt[2].call = choice[alt[1]].call
                 /\ alt[2].put = choice[alt[1]].put

AllTradingDates == {r.date : r \in df}

\* the thresholds in force are those of the window of the batch
BatchThresholds ==
  /\ Cardinality({r.date : r \in historical_data})
       = Min(lookback_days, Cardinality(AllTradingDates))
  /\ historical_data = {r \in df : r.date \in MostRecent(AllTradingDates, lookback_days)}
  /\ pc = "batch" => institution_percentiles = institution_percentiles_R(historical_data)
  /\ pc = "batch3" => institution_percentiles = calculate_combined_percentiles(historical_data)

C23_FixedBatch ==
  [][ (pc \in {"batch", "batch3"} /\ date_i' = date_i + 1) =>
        /\ BatchThresholds
        /\ institution_percentiles' = institution_percentiles
        /\ historical_data' = historical_data
        /\ df' = df
        /\ pc' = pc
        /\ pc = "batch" =>
             results' = calculate_strength_for_date_R(df, ev'.date, institution_percentiles)
        /\ pc = "batch3" =>
             results' = calculate_strength_for_date_C3(df, ev'.date, institution_percentiles)
    ]_vars

\* the third date of a batch has been scored, with thresholds of a window of
\* two dates that the first scored date is not in
C23_Witness ==
  /\ pc = "batch"
  /\ date_i = 3
  /\ lookback_days = 2
  /\ Cardinality({r.date : r \in historical_data}) = 2
  /\ \E i \in DOMAIN all_results :
       all_results[i].date \notin {r.date : r \in historical_data}
  /\ results # << >>

(***************************************************************************)
(* C24: for every pair of inputs with the same direction,                  *)
(* apply_truth_table of part_000 returns a decisive label with that        *)
(* direction whose tier is the stronger of the two input tiers.            *)
(***************************************************************************)
StrongerTier(a, b) == IF TierRank(a) >= TierRank(b) THEN a ELSE b

\* the statement of the claim
C24_StrongerTier ==
  (op = "apply_truth_table" /\ arg[1] = "R" /\ arg[3] = arg[5]) =>
    ret = Fmt(StrongerTier(arg[2], arg[4]), arg[3])

\* C24 as it holds: the label has the common direction; its tier is the
\* stronger of the two when the OI tier is STRONG or MEDIUM; with a MILD OI
\* tier it is MEDIUM for a STRONG change and MILD otherwise
C24_SameDirectionTier ==
  (op = "apply_truth_table" /\ arg[1] = "R" /\ arg[3] = arg[5]) =>
    ret = Fmt(IF arg[2] # "MILD" THEN StrongerTier(arg[2], arg[4])
              ELSE IF arg[4] = "STRONG" THEN "MEDIUM" ELSE "MILD",
              arg[3])

C24_Witness ==
  /\ op = "apply_truth_table"
  /\ arg = <<"R", "MILD", "BULLISH", "STRONG", "BULLISH">>
  /\ ret = "MEDIUM BULLISH"

(***************************************************************************)
(* C25: whenever one input of apply_truth_table of part_000 is STRONG and  *)
(* the other is MILD with the opposite direction, the result is the STRONG *)
(* input's own label, whichever of the two is the OI label.                *)
(***************************************************************************)
StrongAgainstMild ==
  /\ op = "apply_truth_table"
  /\ arg[1] = "R"
  /\ arg[3] # arg[5]
  /\ {arg[2], arg[4]} = {"STRONG", "MILD"}

\* the statement of the claim
C25_StrongWins ==
  StrongAgainstMild =>
    ret = (IF arg[2] = "STRONG" THEN Fmt("STRONG", arg[3]) ELSE Fmt("STRONG", arg[5]))

\* C25 as it holds: the result has the direction of the STRONG input; its
\* tier is STRONG when the STRONG input is the OI label and MEDIUM when it is
\* the change label
C25_StrongDirectionWins ==
  StrongAgainstMild =>
    ret = (IF arg[2] = "STRONG" THEN Fmt("STRONG", arg[3]) ELSE Fmt("MEDIUM", arg[5]))

C25_Witness ==
  /\ op = "apply_truth_table"
  /\ arg = <<"R", "MILD", "BULLISH", "STRONG", "BEARISH">>
  /\ ret = "MEDIUM BEARISH"

(***************************************************************************)
(* C26: in fii_strength_calculator.py, calculate_strength_for_date gives   *)
(* the Put Options segment the inverted direction for both OI and change:  *)
(* a positive Put value is labelled BEARISH and a non-positive one         *)
(* BULLISH, so a Put record with strongly positive OI and strongly         *)
(* positive change has final label STRONG BEARISH.                          *)
(***************************************************************************)
InvertedDirection(value) == IF GtZero(value) THEN "BEARISH" ELSE "BULLISH"

DirectionWord(label) == parse_strength(label)[2]

C26_PutInverted ==
  (op = "segment_strength" /\ arg[1] = "C1" /\ arg[2] = "Put Options") =>
    /\ DirectionWord(ret.oi_strength) = InvertedDirection(arg[3])
    /\ DirectionWord(ret.change_strength) = InvertedDirection(arg[4])
    /\ (/\ GtZero(arg[3]) /\ GtZero(arg[4])
        /\ parse_strength(ret.oi_strength)[1] = "STRONG"
        /\ parse_strength(ret.change_strength)[1] = "STRONG")
       => ret.final_strength = "STRONG BEARISH"

(***************************************************************************)
(* C27: for every threshold and institution, after                         *)
(* calculate_accuracy_summary has processed any prefix of the scored       *)
(* dates, correct + wrong + indecisive equals the number of processed      *)
(* dates that have both index closes available and both a Call and a Put   *)
(* label for that institution: each such (date, institution) increments    *)
(* exactly one of the three counters by exactly 1, and no counter ever     *)
(* decreases.                                                               *)
(***************************************************************************)
Counters == {"correct", "wrong", "indecisive"}

CounterSum(c) == c.correct + c.wrong + c.indecisive

\* the k-th date the loop over reversed(analysis_dates) handles
ProcessedDate(k) == analysis_dates[Len(analysis_dates) + 1 - k]

\* the date has a following trading date, both closes are known and the
\* institution has a Call Options and a Put Options record on the date
Countable(date, inst) ==
  /\ \E x \in TradingDates : x > date
  /\ date \in DOMAIN date_to_nifty
  /\ FollowingDate(date) \in DOMAIN date_to_nifty
  /\ BothLabels(calculate_strength_for_date_R(df, date, institution_percentiles), inst)

CountersPartition ==
  pc = "scoring" =>
    \A inst \in DOMAIN counts :
      CounterSum(counts[inst]) =
        Cardinality({k \in 1..date_i : Countable(ProcessedDate(k), inst)})

CountersStep ==
  (pc = "scoring" /\ pc' = "scoring" /\ thr_i' = thr_i /\ date_i' = date_i + 1) =>
    \A inst \in DOMAIN counts :
      /\ \A k \in Counters : counts'[inst][k] >= counts[inst][k]
      /\ IF Countable(ProcessedDate(date_i'), inst)
         THEN \E k \in Counters :
                /\ counts'[inst][k] = counts[inst][k] + 1
                /\ \A other \in Counters \ {k} : counts'[inst][other] = counts[inst][other]
         ELSE counts'[inst] = counts[inst]

C27_CountersPartition == [](CountersPartition) /\ [][CountersStep]_vars

\* two dates are processed; one institution was counted on both, another
\* on one of them only, and one date left an institution without a count
C27_Witness ==
  /\ pc = "scoring" /\ date_i = 2
  /\ \E a, b \in DOMAIN counts :
       /\ CounterSum(counts[a]) = 2
       /\ counts[a].indecisive < 2
       /\ CounterSum(counts[b]) = 1

(***************************************************************************)
(* C28: for fixed inputs, the indecisive count and the sum correct + wrong *)
(* of each institution are the same at every movement threshold; only the  *)
(* split between correct and wrong can differ between thresholds, dates    *)
(* whose expectation is UP or DOWN are scored identically at every         *)
(* threshold, and raising the threshold never turns a correct FLAT,        *)
(* NEUTRAL, FLAT OR UP or FLAT OR DOWN outcome into wrong.                  *)
(***************************************************************************)
\* the printed tables of the thresholds agree on indecisive and on
\* correct + wrong
SameTotals ==
  \A i, j \in DOMAIN report : \A inst \in DOMAIN report[i] :
    /\ report[i][inst].i = report[j][inst].i
    /\ report[i][inst].c + report[i][inst].w = report[j][inst].c + report[j][inst].w

\* the counter of inst that the step incremented
Incremented(inst) ==
  CHOOSE k \in Counters : counts'[inst][k] = counts[inst][k] + 1

\* a scoring step at the threshold thr_i, compared with the outcome of the
\* same (date, institution) at every lower threshold
ThresholdStep ==
  (pc = "scoring" /\ ev'.kind = "scored" /\ date_i' = date_i + 1) =>
    \A inst \in DOMAIN counts :
      BothLabels(results', inst) =>
        LET e == exp_str_for(inst, LabelOf(results', inst, "Call Options"),
                             LabelOf(results', inst, "Put Options"))
        IN \A j \in 1..thr_i :
             LET lower == score(e, ev'.pct, thresholds[j])
             IN /\ (lower = "indecisive") = (Incremented(inst) = "indecisive")
                /\ e \in {"UP", "DOWN"} => Incremented(inst) = lower
                /\ (/\ e \in {"FLAT", "NEUTRAL", "FLAT OR UP", "FLAT OR DOWN"}
                    /\ lower = "correct") => Incremented(inst) = "correct"

\* the scoring rule at the return of a scored date, for every expectation
\* string of the table and every pair of thresholds t1 <= t2
ScoreAcrossThresholds ==
  ev.kind = "scored" =>
    \A e \in ExpStrings : \A i, j \in DOMAIN thresholds :
      thresholds[i] <= thresholds[j] =>
        LET lower == score(e, ev.pct, thresholds[i])
            higher == score(e, ev.pct, thresholds[j])
        IN /\ (lower = "indecisive") = (higher = "indecisive")
           /\ e \in {"UP", "DOWN"} => lower = higher
           /\ (/\ e \in {"FLAT", "NEUTRAL", "FLAT OR UP", "FLAT OR DOWN"}
               /\ lower = "correct") => higher = "correct"

C28_ThresholdIndependence ==
  [](SameTotals /\ ScoreAcrossThresholds) /\ [][ThresholdStep]_vars

\* all three tables are printed; an institution has the same totals in each
\* and more correct outcomes at 0.4 than at 0.2
C28_Witness ==
  /\ pc = "done" /\ Len(report) = Len(thresholds)
  /\ \E inst \in DOMAIN counts :
       /\ report[1][inst].c < report[3][inst].c
       /\ report[1][inst].w > report[3][inst].w
       /\ report[1][inst].i = report[3][inst].i

(***************************************************************************)
(* C29: apply_truth_table commutes with swapping BULLISH and BEARISH: for  *)
(* all 36 input pairs, flipping the direction of both inputs flips the     *)
(* direction of the output and keeps its tier, and an INDECISIVE output    *)
(* stays INDECISIVE.                                                        *)
(***************************************************************************)
FlipDirection(dir) == IF dir = "BULLISH" THEN "BEARISH" ELSE "BULLISH"

\* the label with the other direction; INDECISIVE is its own mirror image
FlipLabel(label) ==
  IF label = "INDECISIVE" THEN "INDECISIVE"
  ELSE Fmt(parse_strength(label)[1], FlipDirection(parse_strength(label)[2]))

\* apply_truth_table of the script v on the inputs with both directions
\* flipped
OnFlippedInputs(v, os, od, cs, cd) ==
  IF v = "R" THEN apply_truth_table_R(os, FlipDirection(od), cs, FlipDirection(cd))
  ELSE apply_truth_table_M2(os, FlipDirection(od), cs, FlipDirection(cd))

C29_DirectionSymmetry ==
  (op = "apply_truth_table" /\ arg[1] \in {"R", "M2"}) =>
    /\ ret \in FinalLabels
    /\ OnFlippedInputs(arg[1], arg[2], arg[3], arg[4], arg[5]) = FlipLabel(ret)

\* a conflicting pair that the table decides: MEDIUM BEARISH with MILD
\* BULLISH gives MEDIUM BEARISH, its mirror image gives MEDIUM BULLISH
C29_Witness ==
  /\ op = "apply_truth_table"
  /\ arg = <<"R", "MEDIUM", "BEARISH", "MILD", "BULLISH">>
  /\ ret = "MEDIUM BEARISH"
  /\ apply_truth_table_R("MEDIUM", "BULLISH", "MILD", "BEARISH") = "MEDIUM BULLISH"

(***************************************************************************)
(* C30: for all 36 input pairs of apply_truth_table (part_000) and of      *)
(* get_strength_view_from_oi_and_oi_change_strength (helper): when both    *)
(* inputs have the same direction the output is decisive and has that      *)
(* direction; when the directions are opposite and the output is decisive, *)
(* the output takes the change label's direction only if the OI tier is    *)
(* MILD and the change tier is STRONG, and takes the OI label's direction  *)
(* in every other case.                                                     *)
(***************************************************************************)
\* a state after a call of one of the two composition functions
ComposedPair ==
  \/ op = "apply_truth_table" /\ arg[1] = "R"
  \/ op = "get_strength_view_from_oi_and_oi_change_strength"

\* the result as one of the seven labels
ComposedLabel == IF arg[1] = "H" THEN LabelOfH(ret) ELSE ret

\* the OI tier is MILD and the change tier is STRONG, in the constants of
\* the called function
MildAgainstStrong ==
  IF arg[1] = "H" THEN arg[2] = MILD /\ arg[4] = STRONG
  ELSE arg[2] = "MILD" /\ arg[4] = "STRONG"

C30_DirectionRule ==
  ComposedPair =>
    /\ ComposedLabel \in FinalLabels
    /\ arg[3] = arg[5] =>
         ComposedLabel \in DecisiveLabels /\ DirectionWord(ComposedLabel) = arg[3]
    /\ (arg[3] # arg[5] /\ ComposedLabel \in DecisiveLabels) =>
         /\ DirectionWord(ComposedLabel) = arg[5] => MildAgainstStrong
         /\ ~MildAgainstStrong => DirectionWord(ComposedLabel) = arg[3]

\* the helper decides MILD BULLISH against STRONG BEARISH for the change
C30_Witness ==
  /\ op = "get_strength_view_from_oi_and_oi_change_strength"
  /\ arg = <<"H", MILD, BULLISH, STRONG, BEARISH>>
  /\ ret = <<MEDIUM, BEARISH>>

====
